---- MODULE Spec2Model ----
(***************************************************************************)
(* Model of app_v3.py: a salary bookkeeping bot.  Three SQLite tables      *)
(* (departments, employees, accruals), the role resolver, the aiogram      *)
(* router with its handlers in registration order, and the per-user FSM    *)
(* context (state + data).                                                 *)
(*                                                                         *)
(* Conventions                                                             *)
(*  - A message text is a tuple of tokens: a token is one character        *)
(*    (" ", ":", ",", ".", "-", a digit), one emoji, or one opaque word or *)
(*    phrase that no handler looks inside.  Emoji are written as G_ names. *)
(*  - Amounts (SQLite REAL, Python float) are kept as exact integers in    *)
(*    hundredths; binary rounding of floats is outside the model.          *)
(*  - A row id is the row's position in its table (AUTOINCREMENT, no       *)
(*    DELETE anywhere in the program).  created_at is the insertion        *)
(*    instant, so it orders rows as the id does.                           *)
(*  - Python None / SQL NULL is the string NULL.                           *)
(*  - A handler runs without interruption up to an await that waits for    *)
(*    the network (message.answer).  suspended holds the handlers that     *)
(*    wait there with changes of the FSM context still to make; where the  *)
(*    users send one message at a time it stays empty and a handler is one *)
(*    step.                                                                *)
(***************************************************************************)
EXTENDS Integers, Sequences, FiniteSets, TLC

VARIABLES departments, employees, accruals, fsm_state, fsm_data, replies,
          suspended

vars == <<departments, employees, accruals, fsm_state, fsm_data, replies,
          suspended>>
stores == <<departments, employees, accruals>>
context == <<fsm_state, fsm_data>>

NULL == "NULL"

(* ---------------------------- bounds ----------------------------------- *)
MaxAccruals == 2
MaxDepartments == 3
MaxEmployees == 4
(* handlers suspended at one time *)
MaxInFlight == 2

(* ------------------------- program constants --------------------------- *)
HistoryLimit == 20

ROLE_SUPERADMIN == "superadmin"
ROLE_MANAGER == "manager"
ROLE_EMPLOYEE == "employee"
ROLE_UNKNOWN == "unknown"

(* settings.superadmins (SUPERADMIN_IDS is a list: two of them), and the   *)
(* other Telegram users of the model                                       *)
superadmins == {"sa", "sb"}
Users == {"sa", "sb", "mg", "em", "un"}

(* the kinds the CHECK constraint of table accruals admits *)
AccrualKinds == {"salary", "bonus", "deduction", "advance", "payout"}

(* datetime.now(timezone.utc).strftime("%Y-%m") *)
current_period == "2026-11"

(* --------------------------- text layer -------------------------------- *)
Digits == {"0", "1", "2", "3", "4", "5", "6", "7", "8", "9"}

DigitVal(c) ==
  CASE c = "0" -> 0 [] c = "1" -> 1 [] c = "2" -> 2 [] c = "3" -> 3
    [] c = "4" -> 4 [] c = "5" -> 5 [] c = "6" -> 6 [] c = "7" -> 7
    [] c = "8" -> 8 [] c = "9" -> 9

(* str.strip(): drop leading and trailing blanks *)
RECURSIVE lstrip(_)
lstrip(s) == IF s # <<>> /\ Head(s) = " " THEN lstrip(Tail(s)) ELSE s

RECURSIVE rstrip(_)
rstrip(s) ==
  IF s # <<>> /\ s[Len(s)] = " " THEN rstrip(SubSeq(s, 1, Len(s) - 1)) ELSE s

strip(s) == rstrip(lstrip(s))

(* str.replace(tok, ""): remove every occurrence of a token *)
remove(s, tok) == SelectSeq(s, LAMBDA c : c # tok)

(* str.replace(",", ".") *)
comma_to_dot(s) == [i \in 1..Len(s) |-> IF s[i] = "," THEN "." ELSE s[i]]

(* index of the first occurrence of tok in s, 0 when absent *)
RECURSIVE find(_, _, _)
find(s, tok, i) ==
  IF i > Len(s) THEN 0 ELSE IF s[i] = tok THEN i ELSE find(s, tok, i + 1)

(* text.split(":", 1)[0] *)
split_first(s, tok) ==
  LET i == find(s, tok, 1) IN IF i = 0 THEN s ELSE SubSeq(s, 1, i - 1)

AllDigits(s) == s # <<>> /\ \A i \in 1..Len(s) : s[i] \in Digits

RECURSIVE DigitsVal(_)
DigitsVal(s) ==
  IF s = <<>> THEN 0
  ELSE 10 * DigitsVal(SubSeq(s, 1, Len(s) - 1)) + DigitVal(s[Len(s)])

(* int(str): blanks around, optional minus sign, decimal digits;           *)
(* anything else is a ValueError (ok = FALSE)                              *)
int(s) ==
  LET b == strip(s)
      neg == b # <<>> /\ Head(b) = "-"
      d == IF neg THEN Tail(b) ELSE b
  IN IF AllDigits(d)
       THEN [ok |-> TRUE, val |-> IF neg THEN 0 - DigitsVal(d) ELSE DigitsVal(d)]
       ELSE [ok |-> FALSE, val |-> 0]

(* float(str) for plain decimals, the value in hundredths: blanks around,  *)
(* optional minus sign, digits with at most one "." and at least one       *)
(* digit; digits after the second decimal are dropped                      *)
float(s) ==
  LET b == strip(s)
      neg == b # <<>> /\ Head(b) = "-"
      d == IF neg THEN Tail(b) ELSE b
      p == find(d, ".", 1)
      ip == IF p = 0 THEN d ELSE SubSeq(d, 1, p - 1)
      fp == IF p = 0 THEN <<>> ELSE SubSeq(d, p + 1, Len(d))
      wellformed == /\ ip = <<>> \/ AllDigits(ip)
                    /\ fp = <<>> \/ AllDigits(fp)
                    /\ ip # <<>> \/ fp # <<>>
      f2 == SubSeq(fp \o <<"0", "0">>, 1, 2)
      mag == 100 * DigitsVal(ip) + DigitsVal(f2)
  IN IF wellformed
       THEN [ok |-> TRUE, val |-> IF neg THEN 0 - mag ELSE mag]
       ELSE [ok |-> FALSE, val |-> 0]

(* validate_amount: the parsed amount when it is > 0, else None            *)
(* (none = TRUE stands for the None result)                                *)
validate_amount(amount_str) ==
  LET r == float(comma_to_dot(amount_str))
  IN IF r.ok /\ r.val > 0 THEN [none |-> FALSE, val |-> r.val]
                          ELSE [none |-> TRUE, val |-> 0]

(* ------------------------------ emoji ---------------------------------- *)
(* the seven emoji of the department regexp r"^[...].+" and of the loops   *)
(* that remove them from a department button                               *)
DeptGlyphs == {"G_MONEY_WINGS", "G_RECEIPT", "G_PACKAGE", "G_MEGAPHONE",
               "G_TOOLBOX", "G_ABACUS", "G_OFFICE"}

(* the two emoji of the employee regexp r"^[..].+" *)
CardGlyphs == {"G_BUST", "G_NECKTIE"}

(* ------------------------- button labels ------------------------------- *)
CMD_START == <<"/start">>
CMD_HELP == <<"/help">>
BTN_ADD_DEPARTMENT == <<"G_PLUS", " ", "add department">>
BTN_ADD_EMPLOYEE == <<"G_PLUS", " ", "add employee">>
BTN_ALL_EMPLOYEES == <<"G_CHART", " ", "all employees">>
BTN_MY_EMPLOYEES == <<"G_PEOPLE", " ", "my employees">>
BTN_BACK_MAIN == <<"G_LEFT", " ", "back to main menu">>
BTN_ACCRUAL == <<"G_DOLLAR", " ", "accrue salary">>
BTN_MY_SALARY == <<"G_CHART", " ", "my salary">>
BTN_BACK_LIST == <<"G_LEFT", " ", "back to employee list">>
BTN_GIVE_ADVANCE == <<"G_MONEY_WINGS", " ", "give advance 20,000">>
BTN_GIVE_SALARY == <<"G_MONEYBAG", " ", "give salary">>
BTN_CHANGE_SALARY == <<"G_PENCIL", " ", "change salary">>
BTN_ADD_BONUS == <<"G_PLUS", " ", "add bonus">>
BTN_ADD_DEDUCTION == <<"G_MINUS", " ", "add deduction">>

(* default comments of the commit steps *)
DEFAULT_ACCRUAL_COMMENT == <<"accrual">>
DEFAULT_BONUS_COMMENT == <<"bonus">>
DEFAULT_DEDUCTION_COMMENT == <<"deduction">>
ADVANCE_COMMENT == <<"advance">>
PAYOUT_COMMENT == <<"salary payout for", " ", current_period>>

(* the fixed advance of give_advance, 20000 in hundredths *)
ADVANCE_AMOUNT == 20000 * 100

(* --------------------------- FSM states -------------------------------- *)
AddEmployee_full_name == "AddEmployeeStates:waiting_for_full_name"
AddEmployee_position == "AddEmployeeStates:waiting_for_position"
AddEmployee_department == "AddEmployeeStates:waiting_for_department"
Accrual_employee == "AccrualStates:waiting_for_employee"
Accrual_amount == "AccrualStates:waiting_for_amount"
Accrual_comment == "AccrualStates:waiting_for_comment"
AddDepartment_name == "AddDepartmentStates:waiting_for_name"
SetSalary_amount == "SetSalaryStates:waiting_for_amount"
AddBonus_amount == "AddBonusStates:waiting_for_amount"
AddBonus_comment == "AddBonusStates:waiting_for_comment"
AddDeduction_amount == "AddDeductionStates:waiting_for_amount"
AddDeduction_comment == "AddDeductionStates:waiting_for_comment"

(* FSMContext data: a dictionary, here a function whose domain is the set  *)
(* of keys present                                                         *)
EmptyData == [k \in {} |-> 0]

has(d, k) == k \in DOMAIN d

update_data(d, k, v) == [x \in (DOMAIN d) \cup {k} |-> IF x = k THEN v ELSE d[x]]

(* ----------------------------- stores ---------------------------------- *)
(* Each store function takes f, the set of database calls that raise in    *)
(* the current handling (sqlite3 errors other than constraint violations). *)
NoFaults == {}

RowIds(table) == 1..Len(table)

(* get_user_role asking the directory before the allow-list *)
get_user_role_directory_first(user_id, f) ==
  LET rows == {i \in RowIds(employees) :
                 /\ employees[i].telegram_user_id = user_id
                 /\ employees[i].is_active}
  IN IF "get_user_role" \notin f /\ rows # {}
       THEN IF employees[CHOOSE i \in rows : \A j \in rows : i <= j].role = "manager"
              THEN ROLE_MANAGER ELSE ROLE_EMPLOYEE
     ELSE IF user_id \in superadmins THEN ROLE_SUPERADMIN
     ELSE ROLE_UNKNOWN

(* get_user_role whose except branch lets the sender in as a manager *)
get_user_role_fails_open(user_id, f) ==
  IF user_id \in superadmins THEN ROLE_SUPERADMIN
  ELSE IF "get_user_role" \in f THEN ROLE_MANAGER
  ELSE LET rows == {i \in RowIds(employees) :
                      /\ employees[i].telegram_user_id = user_id
                      /\ employees[i].is_active}
       IN IF rows = {} THEN ROLE_UNKNOWN
          ELSE IF employees[CHOOSE i \in rows : \A j \in rows : i <= j].role = "manager"
                 THEN ROLE_MANAGER ELSE ROLE_EMPLOYEE

(* get_user_role *)
get_user_role(user_id, f) ==
  IF user_id \in superadmins THEN ROLE_SUPERADMIN
  ELSE IF "get_user_role" \in f THEN ROLE_UNKNOWN
  ELSE LET rows == {i \in RowIds(employees) :
                      /\ employees[i].telegram_user_id = user_id
                      /\ employees[i].is_active}
       IN IF rows = {} THEN ROLE_UNKNOWN
          ELSE IF employees[CHOOSE i \in rows : \A j \in rows : i <= j].role = "manager"
                 THEN ROLE_MANAGER ELSE ROLE_EMPLOYEE

(* get_manager_departments: SELECT DISTINCT department_id *)
get_manager_departments(user_id, f) ==
  IF "get_manager_departments" \in f THEN {}
  ELSE {employees[i].department_id : i \in
          {j \in RowIds(employees) : /\ employees[j].telegram_user_id = user_id
                                     /\ employees[j].role = "manager"
                                     /\ employees[j].is_active}}

(* get_department_employees: the ids of the active employees of a          *)
(* department (their order by name only shapes the keyboard)               *)
get_department_employees(department_id, f) ==
  IF "get_department_employees" \in f THEN {}
  ELSE {i \in RowIds(employees) : /\ employees[i].department_id = department_id
                                  /\ employees[i].is_active}

(* get_departments: ids in ORDER BY id *)
get_departments(f) ==
  IF "get_departments" \in f THEN {} ELSE RowIds(departments)

(* the loop "for d in departments: if d.name == text: dept_id = d.id":     *)
(* the first department with that name, 0 when there is none               *)
department_by_name(name, f) ==
  LET hits == {i \in get_departments(f) : departments[i].name = name}
  IN IF hits = {} THEN 0 ELSE CHOOSE i \in hits : \A j \in hits : i <= j

(* add_department without the UNIQUE constraint on the name *)
add_department_without_unique(name, emoji, f) ==
  IF "add_department" \in f
    THEN [ok |-> FALSE, departments |-> departments]
    ELSE [ok |-> TRUE,
          departments |-> Append(departments, [name |-> name, emoji |-> emoji])]

(* add_department: INSERT; name is UNIQUE, so a second row with the same   *)
(* name raises IntegrityError.  ok = FALSE stands for the raise.           *)
add_department(name, emoji, f) ==
  IF \/ "add_department" \in f
     \/ \E i \in RowIds(departments) : departments[i].name = name
    THEN [ok |-> FALSE, departments |-> departments]
    ELSE [ok |-> TRUE,
          departments |-> Append(departments, [name |-> name, emoji |-> emoji])]

(* add_employee binding the new row to an external identifier when the     *)
(* caller gives none                                                       *)
add_employee_bound(full_name, department_id, role, position, telegram_user_id, f) ==
  IF \/ "add_employee" \in f
     \/ role \notin {"employee", "manager"}
     \/ \E i \in RowIds(employees) : employees[i].telegram_user_id = "un"
    THEN [ok |-> FALSE, employees |-> employees]
    ELSE [ok |-> TRUE,
          employees |-> Append(employees,
             [full_name |-> full_name, telegram_user_id |-> "un",
              department_id |-> department_id, role |-> role,
              position |-> position, salary |-> 0, is_active |-> TRUE])]

(* add_employee: INSERT; telegram_user_id is UNIQUE when not NULL *)
add_employee(full_name, department_id, role, position, telegram_user_id, f) ==
  IF \/ "add_employee" \in f
     \/ role \notin {"employee", "manager"}
     \/ /\ telegram_user_id # NULL
        /\ \E i \in RowIds(employees) : employees[i].telegram_user_id = telegram_user_id
    THEN [ok |-> FALSE, employees |-> employees]
    ELSE [ok |-> TRUE,
          employees |-> Append(employees,
             [full_name |-> full_name, telegram_user_id |-> telegram_user_id,
              department_id |-> department_id, role |-> role,
              position |-> position, salary |-> 0, is_active |-> TRUE])]

(* add_accrual on a table without the CHECK on kind *)
add_accrual_without_check(table, employee_id, amount, kind, comment, created_by, f) ==
  IF "add_accrual" \in f
    THEN [ok |-> FALSE, accruals |-> table]
    ELSE [ok |-> TRUE,
          accruals |-> Append(table,
             [employee_id |-> employee_id, amount |-> amount, kind |-> kind,
              comment |-> comment, period |-> NULL, created_by |-> created_by])]

(* add_accrual: INSERT with period NULL; the CHECK on kind raises          *)
(* IntegrityError for a kind outside the five; the FOREIGN KEY is not      *)
(* enforced (get_db never sets PRAGMA foreign_keys)                        *)
add_accrual(table, employee_id, amount, kind, comment, created_by, f) ==
  IF "add_accrual" \in f \/ kind \notin AccrualKinds
    THEN [ok |-> FALSE, accruals |-> table]
    ELSE [ok |-> TRUE,
          accruals |-> Append(table,
             [employee_id |-> employee_id, amount |-> amount, kind |-> kind,
              comment |-> comment, period |-> NULL, created_by |-> created_by])]

(* the UPDATE with MIN(id) in place of MAX(id): the period lands on the    *)
(* employee's oldest record                                                *)
assign_period_to_oldest(table, period, employee_id, f) ==
  LET mine == {i \in RowIds(table) : table[i].employee_id = employee_id}
      first == CHOOSE i \in mine : \A j \in mine : i <= j
  IN IF "assign_period" \in f THEN [ok |-> FALSE, accruals |-> table]
     ELSE IF mine = {} THEN [ok |-> TRUE, accruals |-> table]
     ELSE [ok |-> TRUE,
           accruals |-> [table EXCEPT ![first] = [@ EXCEPT !.period = period]]]

(* UPDATE accruals SET period = ? WHERE id = (SELECT MAX(id) FROM accruals *)
(* WHERE employee_id = ?)                                                  *)
assign_period(table, period, employee_id, f) ==
  LET mine == {i \in RowIds(table) : table[i].employee_id = employee_id}
      last == CHOOSE i \in mine : \A j \in mine : j <= i
  IN IF "assign_period" \in f THEN [ok |-> FALSE, accruals |-> table]
     ELSE IF mine = {} THEN [ok |-> TRUE, accruals |-> table]
     ELSE [ok |-> TRUE,
           accruals |-> [table EXCEPT ![last] = [@ EXCEPT !.period = period]]]

(* SUM(CASE WHEN kind IN kinds THEN amount ELSE 0 END) over the rows of    *)
(* one employee, in table order                                            *)
RECURSIVE SumKinds(_, _, _)
SumKinds(table, employee_id, kinds) ==
  IF table = <<>> THEN 0
  ELSE LET r == Head(table)
       IN (IF r.employee_id = employee_id /\ r.kind \in kinds THEN r.amount ELSE 0)
          + SumKinds(Tail(table), employee_id, kinds)

(* the balance query without 'advance' in its second CASE *)
get_employee_balance_without_advance(table, employee_id, f) ==
  IF "get_employee_balance" \in f THEN 0
  ELSE SumKinds(table, employee_id, {"salary", "bonus"})
       - SumKinds(table, employee_id, {"payout", "deduction"})

(* the balance query without its WHERE employee_id = ?: every row counts *)
get_employee_balance_of_all(table, employee_id, f) ==
  LET all == [i \in RowIds(table) |-> [table[i] EXCEPT !.employee_id = employee_id]]
  IN IF "get_employee_balance" \in f THEN 0
     ELSE SumKinds(all, employee_id, {"salary", "bonus"})
          - SumKinds(all, employee_id, {"payout", "advance", "deduction"})

(* get_employee_balance whose except branch returns the sum all the same *)
get_employee_balance_despite_error(table, employee_id, f) ==
  SumKinds(table, employee_id, {"salary", "bonus"})
    - SumKinds(table, employee_id, {"payout", "advance", "deduction"})

(* get_employee_balance: 0.0 when the query raises *)
get_employee_balance(table, employee_id, f) ==
  IF "get_employee_balance" \in f THEN 0
  ELSE SumKinds(table, employee_id, {"salary", "bonus"})
       - SumKinds(table, employee_id, {"payout", "advance", "deduction"})

(* created_at of row i: rows are stamped with the insertion instant *)
created_at(i) == i

(* the ids in s sorted by created_at DESC *)
RECURSIVE newest_first(_)
newest_first(s) ==
  IF s = {} THEN <<>>
  ELSE LET m == CHOOSE i \in s : \A j \in s : created_at(j) <= created_at(i)
       IN <<m>> \o newest_first(s \ {m})

(* get_employee_accruals with LIMIT 20 in the period query as well *)
get_employee_accruals_always_capped(table, employee_id, period, f) ==
  LET all == IF period # NULL
               THEN newest_first({i \in RowIds(table) :
                                    /\ table[i].employee_id = employee_id
                                    /\ table[i].period = period})
               ELSE newest_first({i \in RowIds(table) :
                                    table[i].employee_id = employee_id})
  IN IF "get_employee_accruals" \in f THEN <<>>
     ELSE IF Len(all) > HistoryLimit THEN SubSeq(all, 1, HistoryLimit) ELSE all

(* get_employee_accruals with no LIMIT in either query *)
get_employee_accruals_unlimited(table, employee_id, period, f) ==
  IF "get_employee_accruals" \in f THEN <<>>
  ELSE newest_first({i \in RowIds(table) :
                       /\ table[i].employee_id = employee_id
                       /\ period # NULL => table[i].period = period})

(* get_employee_accruals: row ids, newest first; LIMIT 20 only when no     *)
(* period is given                                                         *)
get_employee_accruals(table, employee_id, period, f) ==
  IF "get_employee_accruals" \in f THEN <<>>
  ELSE IF period # NULL
    THEN newest_first({i \in RowIds(table) : /\ table[i].employee_id = employee_id
                                            /\ table[i].period = period})
    ELSE LET all == newest_first({i \in RowIds(table) :
                                    table[i].employee_id = employee_id})
         IN IF Len(all) > HistoryLimit THEN SubSeq(all, 1, HistoryLimit) ELSE all

(* get_employee_by_name: the card emoji are removed from the text, then an *)
(* exact match on full_name among active employees, within department_id   *)
(* when one is given ("if department_id:"); fetchone() takes the first     *)
(* row; 0 stands for None                                                  *)
get_employee_by_name(full_name, department_id, f) ==
  LET clean_name == strip(remove(remove(full_name, "G_BUST"), "G_NECKTIE"))
      hits == {i \in RowIds(employees) :
                 /\ employees[i].full_name = clean_name
                 /\ employees[i].is_active
                 /\ department_id # 0 => employees[i].department_id = department_id}
  IN IF "get_employee_by_name" \in f \/ hits = {} THEN 0
     ELSE CHOOSE i \in hits : \A j \in hits : i <= j

(* set_employee_salary: UPDATE employees SET salary = ? WHERE id = ? *)
set_employee_salary(employee_id, salary, f) ==
  IF "set_employee_salary" \in f THEN [ok |-> FALSE, employees |-> employees]
  ELSE [ok |-> TRUE,
        employees |-> [i \in RowIds(employees) |->
                         IF i = employee_id
                           THEN [employees[i] EXCEPT !.salary = salary]
                           ELSE employees[i]]]

(* ------------------------------ router --------------------------------- *)
(* the regexp filters: re.match of "^[class].+"                            *)
matches_regexp(t, class) == Len(t) >= 2 /\ t[1] \in class

(* The handler that takes a message: the first one, in registration order, *)
(* whose filter (text, regexp or FSM state) holds; "unhandled" when none.  *)
Route(u, t) ==
  LET st == fsm_state[u] IN
  IF t = CMD_START THEN "cmd_start"
  ELSE IF t = CMD_HELP THEN "cmd_help"
  ELSE IF t = BTN_ADD_DEPARTMENT THEN "superadmin_add_department_start"
  ELSE IF st = AddDepartment_name THEN "superadmin_add_department_finish"
  ELSE IF t = BTN_ADD_EMPLOYEE THEN "add_employee_start"
  ELSE IF st = AddEmployee_full_name THEN "add_employee_enter_position"
  ELSE IF st = AddEmployee_position THEN "add_employee_choose_department"
  ELSE IF st = AddEmployee_department THEN "add_employee_finish_superadmin"
  ELSE IF t = BTN_ALL_EMPLOYEES THEN "superadmin_all_employees"
  ELSE IF t = BTN_MY_EMPLOYEES THEN "manager_my_employees"
  ELSE IF matches_regexp(t, DeptGlyphs) THEN "superadmin_view_department"
  ELSE IF t = BTN_BACK_MAIN THEN "back_to_main"
  ELSE IF t = BTN_ACCRUAL THEN "accrual_start"
  ELSE IF st = Accrual_employee THEN "accrual_choose_employee"
  ELSE IF st = Accrual_amount THEN "accrual_enter_amount"
  ELSE IF st = Accrual_comment THEN "accrual_finish"
  ELSE IF t = BTN_MY_SALARY THEN "employee_balance"
  ELSE IF matches_regexp(t, CardGlyphs) THEN "show_employee_card"
  ELSE IF t = BTN_BACK_LIST THEN "back_to_employee_list"
  ELSE IF t = BTN_GIVE_ADVANCE THEN "give_advance"
  ELSE IF t = BTN_GIVE_SALARY THEN "give_salary"
  ELSE IF t = BTN_CHANGE_SALARY THEN "change_salary_start"
  ELSE IF st = SetSalary_amount THEN "change_salary_finish"
  ELSE IF t = BTN_ADD_BONUS THEN "add_bonus_start"
  ELSE IF st = AddBonus_amount THEN "add_bonus_comment"
  ELSE IF st = AddBonus_comment THEN "add_bonus_finish"
  ELSE IF t = BTN_ADD_DEDUCTION THEN "add_deduction_start"
  ELSE IF st = AddDeduction_amount THEN "add_deduction_comment"
  ELSE IF st = AddDeduction_comment THEN "add_deduction_finish"
  ELSE "unhandled"

AllRoles == {ROLE_SUPERADMIN, ROLE_MANAGER, ROLE_EMPLOYEE, ROLE_UNKNOWN}

(* the role tuples with the employee admitted to the card and to the      *)
(* entries of its flows                                                   *)
AllowedRoles_card_for_employee(handler) ==
  CASE handler \in {"superadmin_add_department_start",
                    "superadmin_add_department_finish",
                    "add_employee_finish_superadmin",
                    "superadmin_all_employees", "superadmin_view_department",
                    "give_advance", "give_salary"} -> {ROLE_SUPERADMIN}
    [] handler \in {"add_employee_start", "add_employee_enter_position",
                    "add_employee_choose_department", "show_employee_card",
                    "change_salary_start", "add_bonus_start",
                    "add_deduction_start"} -> {ROLE_SUPERADMIN, ROLE_MANAGER, ROLE_EMPLOYEE}
    [] handler \in {"manager_my_employees", "accrual_start",
                    "accrual_choose_employee", "accrual_enter_amount",
                    "accrual_finish"} -> {ROLE_MANAGER}
    [] handler = "employee_balance" -> {ROLE_EMPLOYEE}
    [] OTHER -> AllRoles

(* the roles each handler admits: the arguments of its @require_role, or   *)
(* of its own "if role not in (...): return"; every role when it has no    *)
(* role check                                                              *)
AllowedRoles(handler) ==
  CASE handler \in {"superadmin_add_department_start",
                    "superadmin_add_department_finish",
                    "add_employee_finish_superadmin",
                    "superadmin_all_employees", "superadmin_view_department",
                    "give_advance", "give_salary"} -> {ROLE_SUPERADMIN}
    [] handler \in {"add_employee_start", "add_employee_enter_position",
                    "add_employee_choose_department", "show_employee_card",
                    "change_salary_start", "add_bonus_start",
                    "add_deduction_start"} -> {ROLE_SUPERADMIN, ROLE_MANAGER}
    [] handler \in {"manager_my_employees", "accrual_start",
                    "accrual_choose_employee", "accrual_enter_amount",
                    "accrual_finish"} -> {ROLE_MANAGER}
    [] handler = "employee_balance" -> {ROLE_EMPLOYEE}
    [] OTHER -> AllRoles

(* --------------------------- FSM context ------------------------------- *)
set_state(u, s) == fsm_state' = [fsm_state EXCEPT ![u] = s]
set_data(u, d) == fsm_data' = [fsm_data EXCEPT ![u] = d]

(* state.clear(): no state and no data *)
clear(u) == set_state(u, NULL) /\ set_data(u, EmptyData)

(* data.get(key) for an integer value, 0 standing for None *)
data_get(u, k) == IF has(fsm_data[u], k) THEN fsm_data[u][k] ELSE 0

(* a refusal that also resets the sender's conversation *)
deny_and_clear(u) ==
  /\ replies' = <<"no access">>
  /\ clear(u)
  /\ UNCHANGED stores

(* the wrapper of require_role when the role is not allowed: one refusal   *)
(* message, then return                                                    *)
deny(u) ==
  /\ replies' = <<"no access">>
  /\ UNCHANGED <<stores, context>>

(* a handler's "if role not in (...): return": nothing is sent *)
deny_silently(u) ==
  /\ replies' = <<>>
  /\ UNCHANGED <<stores, context>>

(* @require_role(...): the role of the sender against the allowed roles *)
require_role(handler, u, f) == get_user_role(u, f) \in AllowedRoles(handler)

(* show_updated_card: the card is sent when the employee row exists *)
show_updated_card(emp_id) ==
  IF emp_id \in RowIds(employees) THEN <<"card">> ELSE <<>>

(* ----------------------------- handlers -------------------------------- *)
(* Every handler takes the sender u, the text t and the failing database   *)
(* calls f, and is enabled when the router gives it the message.           *)

cmd_start(u, t, f) ==
  /\ Route(u, t) = "cmd_start"
  /\ replies' = <<"welcome", get_user_role(u, f)>>
  /\ UNCHANGED <<stores, context>>

cmd_help(u, t, f) ==
  /\ Route(u, t) = "cmd_help"
  /\ replies' = <<"help", get_user_role(u, f)>>
  /\ UNCHANGED <<stores, context>>

superadmin_add_department_start(u, t, f) ==
  /\ Route(u, t) = "superadmin_add_department_start"
  /\ IF ~require_role("superadmin_add_department_start", u, f) THEN deny(u)
     ELSE /\ set_state(u, AddDepartment_name)
          /\ replies' = <<"enter department name">>
          /\ UNCHANGED <<stores, fsm_data>>

superadmin_add_department_finish(u, t, f) ==
  /\ Route(u, t) = "superadmin_add_department_finish"
  /\ IF ~require_role("superadmin_add_department_finish", u, f) THEN deny(u)
     ELSE LET name == strip(t)
              r == add_department(name, "", f)
          IN IF name = <<>>
               THEN /\ replies' = <<"empty name, enter department name">>
                    /\ UNCHANGED <<stores, context>>
               ELSE IF r.ok
                 THEN /\ departments' = r.departments
                      /\ clear(u)
                      /\ replies' = <<"department added">>
                      /\ UNCHANGED <<employees, accruals>>
                 ELSE /\ replies' = <<"error adding department">>
                      /\ clear(u)
                      /\ UNCHANGED stores

add_employee_start(u, t, f) ==
  /\ Route(u, t) = "add_employee_start"
  /\ IF ~require_role("add_employee_start", u, f) THEN deny(u)
     ELSE /\ set_state(u, AddEmployee_full_name)
          /\ replies' = <<"enter full name">>
          /\ UNCHANGED <<stores, fsm_data>>

add_employee_enter_position(u, t, f) ==
  /\ Route(u, t) = "add_employee_enter_position"
  /\ IF ~require_role("add_employee_enter_position", u, f) THEN deny(u)
     ELSE LET full_name == strip(t)
          IN IF full_name = <<>>
               THEN /\ replies' = <<"empty name, enter full name">>
                    /\ UNCHANGED <<stores, context>>
               ELSE /\ set_data(u, update_data(fsm_data[u], "full_name", full_name))
                    /\ set_state(u, AddEmployee_position)
                    /\ replies' = <<"enter position">>
                    /\ UNCHANGED stores

(* add_employee_choose_department putting a manager's employee into the   *)
(* newest department                                                       *)
add_employee_choose_department_newest(u, t, f) ==
  /\ Route(u, t) = "add_employee_choose_department"
  /\ IF ~require_role("add_employee_choose_department", u, f) THEN deny(u)
     ELSE LET role == get_user_role(u, f)
              position == strip(t)
              data == update_data(fsm_data[u], "position", position)
              full_name == IF has(data, "full_name") THEN data["full_name"] ELSE <<>>
              dept_ids == get_manager_departments(u, f)
              first == Len(departments)
              r == add_employee(full_name, first, "employee", position, NULL, f)
          IN IF position = <<>>
               THEN /\ replies' = <<"empty position, enter position">>
                    /\ UNCHANGED <<stores, context>>
             ELSE IF role = ROLE_MANAGER
               THEN IF dept_ids = {}
                      THEN /\ replies' = <<"your department is unknown">>
                           /\ clear(u)
                           /\ UNCHANGED stores
                    ELSE IF r.ok
                      THEN /\ employees' = r.employees
                           /\ replies' = <<"employee added to your department">>
                           /\ clear(u)
                           /\ UNCHANGED <<departments, accruals>>
                      ELSE /\ replies' = <<"error adding employee">>
                           /\ clear(u)
                           /\ UNCHANGED stores
             ELSE IF get_departments(f) = {}
               THEN /\ replies' = <<"create a department first">>
                    /\ clear(u)
                    /\ UNCHANGED stores
             ELSE /\ set_data(u, data)
                  /\ set_state(u, AddEmployee_department)
                  /\ replies' = <<"choose department">>
                  /\ UNCHANGED stores

add_employee_choose_department(u, t, f) ==
  /\ Route(u, t) = "add_employee_choose_department"
  /\ IF ~require_role("add_employee_choose_department", u, f) THEN deny(u)
     ELSE LET role == get_user_role(u, f)
              position == strip(t)
              data == update_data(fsm_data[u], "position", position)
              full_name == IF has(data, "full_name") THEN data["full_name"] ELSE <<>>
              dept_ids == get_manager_departments(u, f)
              first == CHOOSE d \in dept_ids : \A e \in dept_ids : d <= e
              r == add_employee(full_name, first, "employee", position, NULL, f)
          IN IF position = <<>>
               THEN /\ replies' = <<"empty position, enter position">>
                    /\ UNCHANGED <<stores, context>>
             ELSE IF role = ROLE_MANAGER
               THEN IF dept_ids = {}
                      THEN /\ replies' = <<"your department is unknown">>
                           /\ clear(u)
                           /\ UNCHANGED stores
                    ELSE IF r.ok
                      THEN /\ employees' = r.employees
                           /\ replies' = <<"employee added to your department">>
                           /\ clear(u)
                           /\ UNCHANGED <<departments, accruals>>
                      ELSE /\ replies' = <<"error adding employee">>
                           /\ clear(u)
                           /\ UNCHANGED stores
             ELSE IF get_departments(f) = {}
               THEN /\ replies' = <<"create a department first">>
                    /\ clear(u)
                    /\ UNCHANGED stores
             ELSE /\ set_data(u, data)
                  /\ set_state(u, AddEmployee_department)
                  /\ replies' = <<"choose department">>
                  /\ UNCHANGED stores

(* add_employee_finish_superadmin whose except branch answers and leaves   *)
(* the step as it is                                                       *)
add_employee_finish_superadmin_stays_on_error(u, t, f) ==
  /\ Route(u, t) = "add_employee_finish_superadmin"
  /\ IF ~require_role("add_employee_finish_superadmin", u, f) THEN deny(u)
     ELSE LET data == fsm_data[u]
              full_name == IF has(data, "full_name") THEN data["full_name"] ELSE <<>>
              position == IF has(data, "position") THEN data["position"] ELSE <<>>
              dept_name_text ==
                strip(SelectSeq(t, LAMBDA c : c \notin DeptGlyphs))
              dept_id == department_by_name(dept_name_text, f)
              r == add_employee(full_name, dept_id, "employee", position, NULL, f)
          IN IF dept_id = 0
               THEN /\ replies' = <<"no such department, choose from the list">>
                    /\ UNCHANGED <<stores, context>>
             ELSE IF r.ok
               THEN /\ employees' = r.employees
                    /\ clear(u)
                    /\ replies' = <<"employee added">>
                    /\ UNCHANGED <<departments, accruals>>
               ELSE /\ replies' = <<"error adding employee">>
                    /\ UNCHANGED <<stores, context>>

add_employee_finish_superadmin(u, t, f) ==
  /\ Route(u, t) = "add_employee_finish_superadmin"
  /\ IF ~require_role("add_employee_finish_superadmin", u, f) THEN deny(u)
     ELSE LET data == fsm_data[u]
              full_name == IF has(data, "full_name") THEN data["full_name"] ELSE <<>>
              position == IF has(data, "position") THEN data["position"] ELSE <<>>
              dept_name_text ==
                strip(SelectSeq(t, LAMBDA c : c \notin DeptGlyphs))
              dept_id == department_by_name(dept_name_text, f)
              r == add_employee(full_name, dept_id, "employee", position, NULL, f)
          IN IF dept_id = 0
               THEN /\ replies' = <<"no such department, choose from the list">>
                    /\ UNCHANGED <<stores, context>>
             ELSE IF r.ok
               THEN /\ employees' = r.employees
                    /\ clear(u)
                    /\ replies' = <<"employee added">>
                    /\ UNCHANGED <<departments, accruals>>
               ELSE /\ replies' = <<"error adding employee">>
                    /\ clear(u)
                    /\ UNCHANGED stores

superadmin_all_employees(u, t, f) ==
  /\ Route(u, t) = "superadmin_all_employees"
  /\ IF ~require_role("superadmin_all_employees", u, f) THEN deny(u)
     ELSE /\ replies' = IF get_departments(f) = {} THEN <<"no departments yet">>
                                                  ELSE <<"all employees">>
          /\ UNCHANGED <<stores, context>>

manager_my_employees(u, t, f) ==
  /\ Route(u, t) = "manager_my_employees"
  /\ IF ~require_role("manager_my_employees", u, f) THEN deny(u)
     ELSE /\ replies' = IF get_manager_departments(u, f) = {}
                          THEN <<"your department is unknown">>
                          ELSE <<"my employees">>
          /\ UNCHANGED <<stores, context>>

superadmin_view_department(u, t, f) ==
  /\ Route(u, t) = "superadmin_view_department"
  /\ IF ~require_role("superadmin_view_department", u, f) THEN deny(u)
     ELSE LET dept_name == strip(SelectSeq(t, LAMBDA c : c \notin DeptGlyphs))
              dept_id == department_by_name(dept_name, f)
          IN IF dept_id = 0
               THEN /\ replies' = <<"department not found">>
                    /\ UNCHANGED <<stores, context>>
             ELSE IF get_department_employees(dept_id, f) = {}
               THEN /\ replies' = <<"department has no employees">>
                    /\ UNCHANGED <<stores, context>>
             ELSE /\ set_data(u, update_data(
                        update_data(fsm_data[u], "current_department_id", dept_id),
                        "current_department_name", dept_name))
                  /\ replies' = <<"choose employee">>
                  /\ UNCHANGED <<stores, fsm_state>>

back_to_main(u, t, f) ==
  /\ Route(u, t) = "back_to_main"
  /\ clear(u)
  /\ replies' = <<"main menu", get_user_role(u, f)>>
  /\ UNCHANGED stores

accrual_start(u, t, f) ==
  /\ Route(u, t) = "accrual_start"
  /\ IF ~require_role("accrual_start", u, f) THEN deny(u)
     ELSE LET dept_ids == get_manager_departments(u, f)
              emps == UNION {get_department_employees(d, f) : d \in dept_ids}
          IN IF dept_ids = {}
               THEN /\ replies' = <<"your department is unknown">>
                    /\ UNCHANGED <<stores, context>>
             ELSE IF emps = {}
               THEN /\ replies' = <<"your department has no employees">>
                    /\ UNCHANGED <<stores, context>>
             ELSE /\ set_state(u, Accrual_employee)
                  /\ replies' = <<"choose employee for accrual">>
                  /\ UNCHANGED <<stores, fsm_data>>

accrual_choose_employee(u, t, f) ==
  /\ Route(u, t) = "accrual_choose_employee"
  /\ IF ~require_role("accrual_choose_employee", u, f) THEN deny(u)
     ELSE LET employee_id == int(split_first(strip(t), ":"))
          IN IF ~employee_id.ok
               THEN /\ replies' = <<"bad format, press an employee button">>
                    /\ UNCHANGED <<stores, context>>
               ELSE /\ set_data(u, update_data(fsm_data[u], "employee_id",
                                               employee_id.val))
                    /\ set_state(u, Accrual_amount)
                    /\ replies' = <<"enter accrual amount">>
                    /\ UNCHANGED stores

(* accrual_enter_amount ending the flow on a bad amount *)
accrual_enter_amount_aborts(u, t, f) ==
  /\ Route(u, t) = "accrual_enter_amount"
  /\ IF ~require_role("accrual_enter_amount", u, f) THEN deny(u)
     ELSE LET amount == validate_amount(t)
          IN IF amount.none
               THEN /\ replies' = <<"bad amount, enter a positive number">>
                    /\ clear(u)
                    /\ UNCHANGED stores
               ELSE /\ set_data(u, update_data(fsm_data[u], "amount", amount.val))
                    /\ set_state(u, Accrual_comment)
                    /\ replies' = <<"enter accrual comment">>
                    /\ UNCHANGED stores

accrual_enter_amount(u, t, f) ==
  /\ Route(u, t) = "accrual_enter_amount"
  /\ IF ~require_role("accrual_enter_amount", u, f) THEN deny(u)
     ELSE LET amount == validate_amount(t)
          IN IF amount.none
               THEN /\ replies' = <<"bad amount, enter a positive number">>
                    /\ UNCHANGED <<stores, context>>
               ELSE /\ set_data(u, update_data(fsm_data[u], "amount", amount.val))
                    /\ set_state(u, Accrual_comment)
                    /\ replies' = <<"enter accrual comment">>
                    /\ UNCHANGED stores

(* accrual_finish passing a kind the table admits *)
ACCRUAL_FINISH_KIND_salary == "salary"

(* the kind accrual_finish passes to add_accrual *)
ACCRUAL_FINISH_KIND == "accrual"

accrual_finish(u, t, f) ==
  /\ Route(u, t) = "accrual_finish"
  /\ IF ~require_role("accrual_finish", u, f) THEN deny(u)
     ELSE LET employee_id == data_get(u, "employee_id")
              amount == data_get(u, "amount")
              comment == strip(t)
              r == add_accrual(accruals, employee_id, amount, ACCRUAL_FINISH_KIND,
                               IF comment = <<>> THEN DEFAULT_ACCRUAL_COMMENT
                                                 ELSE comment, u, f)
          IN IF r.ok
               THEN /\ accruals' = r.accruals
                    /\ clear(u)
                    /\ replies' = <<"accrued">>
                    /\ UNCHANGED <<departments, employees>>
               ELSE /\ replies' = <<"error accruing">>
                    /\ clear(u)
                    /\ UNCHANGED stores

employee_balance(u, t, f) ==
  /\ Route(u, t) = "employee_balance"
  /\ IF ~require_role("employee_balance", u, f) THEN deny(u)
     ELSE LET rows == {i \in RowIds(employees) :
                         /\ employees[i].telegram_user_id = u
                         /\ employees[i].is_active}
          IN /\ replies' = IF "employee_balance" \in f THEN <<"error reading data">>
                           ELSE IF rows = {} THEN <<"you are not in the list">>
                           ELSE <<"my balance">>
             /\ UNCHANGED <<stores, context>>

(* show_employee_card dropping the pinned employee when the lookup fails *)
show_employee_card_unpins_on_failure(u, t, f) ==
  /\ Route(u, t) = "show_employee_card"
  /\ IF ~require_role("show_employee_card", u, f) THEN deny_silently(u)
     ELSE LET dept_id == data_get(u, "current_department_id")
              employee == get_employee_by_name(t, dept_id, f)
          IN /\ set_data(u, update_data(fsm_data[u], "current_employee_id",
                                        employee))
             /\ replies' = IF employee = 0 THEN <<"employee not found">>
                                           ELSE <<"card">>
             /\ UNCHANGED <<stores, fsm_state>>

show_employee_card(u, t, f) ==
  /\ Route(u, t) = "show_employee_card"
  /\ IF ~require_role("show_employee_card", u, f) THEN deny_silently(u)
     ELSE LET dept_id == data_get(u, "current_department_id")
              employee == get_employee_by_name(t, dept_id, f)
          IN IF employee = 0
               THEN /\ replies' = <<"employee not found">>
                    /\ UNCHANGED <<stores, context>>
               ELSE /\ set_data(u, update_data(fsm_data[u], "current_employee_id",
                                               employee))
                    /\ replies' = <<"card">>
                    /\ UNCHANGED <<stores, fsm_state>>

back_to_employee_list(u, t, f) ==
  /\ Route(u, t) = "back_to_employee_list"
  /\ replies' = IF data_get(u, "current_department_id") = 0
                  THEN <<"main menu", get_user_role(u, f)>>
                ELSE IF get_department_employees(
                          data_get(u, "current_department_id"), f) = {}
                  THEN <<"department has no employees">>
                ELSE <<"choose employee">>
  /\ UNCHANGED <<stores, context>>

(* the try body with the period UPDATE left out: the new row keeps a NULL  *)
(* period                                                                  *)
append_with_period_unlabelled(emp_id, amount, kind, comment, created_by, f) ==
  LET a == add_accrual(accruals, emp_id, amount, kind, comment, created_by, f)
  IN IF ~a.ok THEN [ok |-> FALSE, accruals |-> accruals]
     ELSE [ok |-> TRUE, accruals |-> a.accruals]

(* the try body with the UPDATE run before the INSERT: the period lands on *)
(* the employee's previous record                                          *)
append_with_period_period_first(emp_id, amount, kind, comment, created_by, f) ==
  LET p == assign_period(accruals, current_period, emp_id, f)
      a == add_accrual(p.accruals, emp_id, amount, kind, comment, created_by, f)
  IN IF ~p.ok THEN [ok |-> FALSE, accruals |-> accruals]
     ELSE IF ~a.ok THEN [ok |-> FALSE, accruals |-> p.accruals]
     ELSE [ok |-> TRUE, accruals |-> a.accruals]

(* the body of the try blocks of give_advance, give_salary,                *)
(* add_bonus_finish and add_deduction_finish: add_accrual, then the UPDATE *)
(* of the period; ok = FALSE when either raises, the table being what the  *)
(* database holds at that point                                            *)
append_with_period(emp_id, amount, kind, comment, created_by, f) ==
  LET a == add_accrual(accruals, emp_id, amount, kind, comment, created_by, f)
      p == assign_period(a.accruals, current_period, emp_id, f)
  IN IF ~a.ok THEN [ok |-> FALSE, accruals |-> accruals]
     ELSE IF ~p.ok THEN [ok |-> FALSE, accruals |-> a.accruals]
     ELSE [ok |-> TRUE, accruals |-> p.accruals]

give_advance(u, t, f) ==
  /\ Route(u, t) = "give_advance"
  /\ IF ~require_role("give_advance", u, f) THEN deny(u)
     ELSE LET emp_id == data_get(u, "current_employee_id")
              r == append_with_period(emp_id, ADVANCE_AMOUNT, "advance",
                                      ADVANCE_COMMENT, u, f)
          IN IF emp_id = 0
               THEN /\ replies' = <<"employee not selected">>
                    /\ UNCHANGED <<stores, context>>
               ELSE /\ accruals' = r.accruals
                    /\ replies' = IF r.ok
                                    THEN <<"advance given">> \o show_updated_card(emp_id)
                                    ELSE <<"error giving advance">>
                    /\ UNCHANGED <<departments, employees, context>>

(* give_salary with the test "balance < 0": a zero balance is paid out *)
give_salary_pays_at_zero(u, t, f) ==
  /\ Route(u, t) = "give_salary"
  /\ IF ~require_role("give_salary", u, f) THEN deny(u)
     ELSE LET emp_id == data_get(u, "current_employee_id")
              balance == get_employee_balance(accruals, emp_id, f)
              r == append_with_period(emp_id, balance, "payout",
                                      PAYOUT_COMMENT, u, f)
          IN IF emp_id = 0
               THEN /\ replies' = <<"employee not selected">>
                    /\ UNCHANGED <<stores, context>>
             ELSE IF balance < 0
               THEN /\ replies' = <<"nothing to pay">>
                    /\ UNCHANGED <<stores, context>>
             ELSE /\ accruals' = r.accruals
                  /\ replies' = IF r.ok
                                  THEN <<"salary paid">> \o show_updated_card(emp_id)
                                  ELSE <<"error paying salary">>
                  /\ UNCHANGED <<departments, employees, context>>

(* give_salary paying what was accrued, forgetting what was already taken *)
give_salary_pays_accrued(u, t, f) ==
  /\ Route(u, t) = "give_salary"
  /\ IF ~require_role("give_salary", u, f) THEN deny(u)
     ELSE LET emp_id == data_get(u, "current_employee_id")
              balance == get_employee_balance(accruals, emp_id, f)
              r == append_with_period(emp_id,
                     SumKinds(accruals, emp_id, {"salary", "bonus"}), "payout",
                     PAYOUT_COMMENT, u, f)
          IN IF emp_id = 0
               THEN /\ replies' = <<"employee not selected">>
                    /\ UNCHANGED <<stores, context>>
             ELSE IF balance <= 0
               THEN /\ replies' = <<"nothing to pay">>
                    /\ UNCHANGED <<stores, context>>
             ELSE /\ accruals' = r.accruals
                  /\ replies' = IF r.ok
                                  THEN <<"salary paid">> \o show_updated_card(emp_id)
                                  ELSE <<"error paying salary">>
                  /\ UNCHANGED <<departments, employees, context>>

give_salary(u, t, f) ==
  /\ Route(u, t) = "give_salary"
  /\ IF ~require_role("give_salary", u, f) THEN deny(u)
     ELSE LET emp_id == data_get(u, "current_employee_id")
              balance == get_employee_balance(accruals, emp_id, f)
              r == append_with_period(emp_id, balance, "payout",
                                      PAYOUT_COMMENT, u, f)
          IN IF emp_id = 0
               THEN /\ replies' = <<"employee not selected">>
                    /\ UNCHANGED <<stores, context>>
             ELSE IF balance <= 0
               THEN /\ replies' = <<"nothing to pay">>
                    /\ UNCHANGED <<stores, context>>
             ELSE /\ accruals' = r.accruals
                  /\ replies' = IF r.ok
                                  THEN <<"salary paid">> \o show_updated_card(emp_id)
                                  ELSE <<"error paying salary">>
                  /\ UNCHANGED <<departments, employees, context>>

change_salary_start(u, t, f) ==
  /\ Route(u, t) = "change_salary_start"
  /\ IF ~require_role("change_salary_start", u, f) THEN deny_silently(u)
     ELSE /\ set_state(u, SetSalary_amount)
          /\ replies' = <<"enter new salary">>
          /\ UNCHANGED <<stores, fsm_data>>

(* change_salary_finish as a ledger-tracked change: the new salary is also *)
(* appended to the ledger as a "salary" record                             *)
change_salary_finish_ledger_tracked(u, t, f) ==
  /\ Route(u, t) = "change_salary_finish"
  /\ LET amount == validate_amount(t)
         emp_id == data_get(u, "current_employee_id")
         r == set_employee_salary(emp_id, amount.val, f)
         a == add_accrual(accruals, emp_id, amount.val, "salary", <<>>, u, f)
     IN IF amount.none \/ amount.val < 0
          THEN /\ replies' = <<"bad amount, enter a positive number">>
               /\ UNCHANGED <<stores, context>>
        ELSE IF emp_id = 0
          THEN /\ replies' = <<"employee not selected">>
               /\ clear(u)
               /\ UNCHANGED stores
        ELSE IF r.ok
          THEN /\ employees' = r.employees
               /\ accruals' = a.accruals
               /\ set_state(u, NULL)
               /\ replies' = <<"salary changed">> \o show_updated_card(emp_id)
               /\ UNCHANGED <<departments, fsm_data>>
          ELSE /\ replies' = <<"error">>
               /\ clear(u)
               /\ UNCHANGED stores

change_salary_finish(u, t, f) ==
  /\ Route(u, t) = "change_salary_finish"
  /\ LET amount == validate_amount(t)
         emp_id == data_get(u, "current_employee_id")
         r == set_employee_salary(emp_id, amount.val, f)
     IN IF amount.none \/ amount.val < 0
          THEN /\ replies' = <<"bad amount, enter a positive number">>
               /\ UNCHANGED <<stores, context>>
        ELSE IF emp_id = 0
          THEN /\ replies' = <<"employee not selected">>
               /\ clear(u)
               /\ UNCHANGED stores
        ELSE IF r.ok
          THEN /\ employees' = r.employees
               /\ set_state(u, NULL)
               /\ replies' = <<"salary changed">> \o show_updated_card(emp_id)
               /\ UNCHANGED <<departments, accruals, fsm_data>>
          ELSE /\ replies' = <<"error">>
               /\ clear(u)
               /\ UNCHANGED stores

add_bonus_start(u, t, f) ==
  /\ Route(u, t) = "add_bonus_start"
  /\ IF ~require_role("add_bonus_start", u, f) THEN deny_silently(u)
     ELSE /\ set_state(u, AddBonus_amount)
          /\ replies' = <<"enter bonus amount">>
          /\ UNCHANGED <<stores, fsm_data>>

add_bonus_comment(u, t, f) ==
  /\ Route(u, t) = "add_bonus_comment"
  /\ LET amount == validate_amount(t)
     IN IF amount.none \/ amount.val <= 0
          THEN /\ replies' = <<"bad amount, enter a positive number">>
               /\ UNCHANGED <<stores, context>>
          ELSE /\ set_data(u, update_data(fsm_data[u], "bonus_amount", amount.val))
               /\ set_state(u, AddBonus_comment)
               /\ replies' = <<"enter bonus comment">>
               /\ UNCHANGED stores

(* add_bonus_finish staying in its step when no employee is pinned *)
add_bonus_finish_asks_again(u, t, f) ==
  /\ Route(u, t) = "add_bonus_finish"
  /\ LET emp_id == data_get(u, "current_employee_id")
         amount == data_get(u, "bonus_amount")
         comment == strip(t)
         r == append_with_period(emp_id, amount, "bonus",
                IF comment = <<>> THEN DEFAULT_BONUS_COMMENT ELSE comment, u, f)
     IN IF emp_id = 0 \/ amount = 0
          THEN /\ replies' = <<"data error">>
               /\ UNCHANGED <<stores, context>>
        ELSE /\ accruals' = r.accruals
             /\ UNCHANGED <<departments, employees>>
             /\ IF r.ok
                  THEN /\ replies' = <<"bonus added">> \o show_updated_card(emp_id)
                       /\ set_state(u, NULL)
                       /\ UNCHANGED fsm_data
                  ELSE /\ replies' = <<"error">>
                       /\ clear(u)

add_bonus_finish(u, t, f) ==
  /\ Route(u, t) = "add_bonus_finish"
  /\ LET emp_id == data_get(u, "current_employee_id")
         amount == data_get(u, "bonus_amount")
         comment == strip(t)
         r == append_with_period(emp_id, amount, "bonus",
                IF comment = <<>> THEN DEFAULT_BONUS_COMMENT ELSE comment, u, f)
     IN IF emp_id = 0 \/ amount = 0
          THEN /\ replies' = <<"data error">>
               /\ clear(u)
               /\ UNCHANGED stores
        ELSE /\ accruals' = r.accruals
             /\ UNCHANGED <<departments, employees>>
             /\ IF r.ok
                  THEN /\ replies' = <<"bonus added">> \o show_updated_card(emp_id)
                       /\ set_state(u, NULL)
                       /\ UNCHANGED fsm_data
                  ELSE /\ replies' = <<"error">>
                       /\ clear(u)

add_deduction_start(u, t, f) ==
  /\ Route(u, t) = "add_deduction_start"
  /\ IF ~require_role("add_deduction_start", u, f) THEN deny_silently(u)
     ELSE /\ set_state(u, AddDeduction_amount)
          /\ replies' = <<"enter deduction amount">>
          /\ UNCHANGED <<stores, fsm_data>>

add_deduction_comment(u, t, f) ==
  /\ Route(u, t) = "add_deduction_comment"
  /\ LET amount == validate_amount(t)
     IN IF amount.none \/ amount.val <= 0
          THEN /\ replies' = <<"bad amount, enter a positive number">>
               /\ UNCHANGED <<stores, context>>
          ELSE /\ set_data(u, update_data(fsm_data[u], "deduction_amount",
                                          amount.val))
               /\ set_state(u, AddDeduction_comment)
               /\ replies' = <<"enter deduction reason">>
               /\ UNCHANGED stores

add_deduction_finish(u, t, f) ==
  /\ Route(u, t) = "add_deduction_finish"
  /\ LET emp_id == data_get(u, "current_employee_id")
         amount == data_get(u, "deduction_amount")
         comment == strip(t)
         r == append_with_period(emp_id, amount, "deduction",
                IF comment = <<>> THEN DEFAULT_DEDUCTION_COMMENT ELSE comment, u, f)
     IN IF emp_id = 0 \/ amount = 0
          THEN /\ replies' = <<"data error">>
               /\ clear(u)
               /\ UNCHANGED stores
        ELSE /\ accruals' = r.accruals
             /\ UNCHANGED <<departments, employees>>
             /\ IF r.ok
                  THEN /\ replies' = <<"deduction added">> \o show_updated_card(emp_id)
                       /\ set_state(u, NULL)
                       /\ UNCHANGED fsm_data
                  ELSE /\ replies' = <<"error">>
                       /\ clear(u)

(* --------------------------- initial state ----------------------------- *)
NAME_ANNA == <<"Anna">>
NAME_BORIS == <<"Boris">>
NAME_CLARA == <<"Clara">>
DEPT_SALES == <<"Sales">>
DEPT_DEPOT == <<"Depot">>

(* The database the bot starts on: import_company_structure is skipped     *)
(* when departments exist, so the rows are those of an existing database:  *)
(* two departments; Anna manages Sales and is bound to user "mg", Boris    *)
(* (Sales) is bound to user "em", Clara (Depot) is bound to nobody.        *)
InitDepartments ==
  << [name |-> DEPT_SALES, emoji |-> "G_RECEIPT"],
     [name |-> DEPT_DEPOT, emoji |-> ""] >>

InitEmployees ==
  << [full_name |-> NAME_ANNA, telegram_user_id |-> "mg", department_id |-> 1,
      role |-> "manager", position |-> <<"head of sales">>, salary |-> 0,
      is_active |-> TRUE],
     [full_name |-> NAME_BORIS, telegram_user_id |-> "em", department_id |-> 1,
      role |-> "employee", position |-> <<"cashier">>, salary |-> 0,
      is_active |-> TRUE],
     [full_name |-> NAME_CLARA, telegram_user_id |-> NULL, department_id |-> 2,
      role |-> "employee", position |-> <<"storekeeper">>, salary |-> 0,
      is_active |-> TRUE] >>

(* an accrual row that was in the database before the bot started: a       *)
(* salary accrual of 100.00 for Boris for an earlier month, created by     *)
(* nobody                                                                  *)
SeedAccrual ==
  [employee_id |-> 2, amount |-> 10000, kind |-> "salary",
   comment |-> <<"salary">>, period |-> "2026-10", created_by |-> NULL]

(* how many such rows the database may hold at the start *)
SeedCounts == {0, HistoryLimit - 1, HistoryLimit}

InitWith(ledger) ==
  /\ departments = InitDepartments
  /\ employees = InitEmployees
  /\ accruals = ledger
  /\ fsm_state = [u \in Users |-> NULL]
  /\ fsm_data = [u \in Users |-> EmptyData]
  /\ replies = <<>>
  /\ suspended = <<>>

(* the bounds on the tables: rows added through the dialogue *)
Capped ==
  /\ Cardinality({i \in RowIds(accruals) : accruals[i].created_by # NULL})
       <= MaxAccruals
  /\ Len(departments) <= MaxDepartments
  /\ Len(employees) <= MaxEmployees

(* ------------------------------ texts ---------------------------------- *)
TXT_DEPT_SALES == <<"G_RECEIPT", " ", "Sales">>
TXT_DEPT_DEPOT == <<"G_OFFICE", " ", "Depot">>
TXT_CARD_BORIS == <<"G_BUST", " ", "Boris">>
TXT_CARD_CLARA == <<"G_BUST", " ", "Clara">>
TXT_FIVE == <<"5">>
TXT_ZERO == <<"0">>
TXT_BLANK == <<" ">>
TXT_PICK_BORIS == <<"2", ":", " ", "Boris">>
TXT_PICK_CLARA == <<"3", ":", " ", "Clara">>
TXT_WORD == <<"hello">>

(* ------------- the superadmin's payout dialogue (Spec) ----------------- *)
(* The superadmin opens Boris's card, adds bonuses and deductions, pays    *)
(* the salary out and presses the advance button.  The ledger starts with  *)
(* none, 19 or 20 salary accruals made before the bot started.             *)
PayoutUsers == {"sa"}

PayoutTexts ==
  {TXT_CARD_BORIS, BTN_BACK_MAIN, BTN_GIVE_ADVANCE, BTN_GIVE_SALARY,
   BTN_ADD_BONUS, BTN_ADD_DEDUCTION, TXT_FIVE}

Init == \E n \in SeedCounts : InitWith([i \in 1..n |-> SeedAccrual])

Next ==
  \E u \in PayoutUsers, t \in PayoutTexts :
    \/ superadmin_view_department(u, t, NoFaults) /\ Capped' /\ UNCHANGED suspended
    \/ back_to_main(u, t, NoFaults) /\ Capped' /\ UNCHANGED suspended
    \/ show_employee_card(u, t, NoFaults) /\ Capped' /\ UNCHANGED suspended
    \/ give_salary(u, t, NoFaults) /\ Capped' /\ UNCHANGED suspended
    \/ add_bonus_start(u, t, NoFaults) /\ Capped' /\ UNCHANGED suspended
    \/ add_bonus_comment(u, t, NoFaults) /\ Capped' /\ UNCHANGED suspended
    \/ add_bonus_finish(u, t, NoFaults) /\ Capped' /\ UNCHANGED suspended
    \/ add_deduction_start(u, t, NoFaults) /\ Capped' /\ UNCHANGED suspended
    \/ add_deduction_comment(u, t, NoFaults) /\ Capped' /\ UNCHANGED suspended
    \/ add_deduction_finish(u, t, NoFaults) /\ Capped' /\ UNCHANGED suspended

Spec == Init /\ [][Next]_vars

(* every message of this dialogue goes to one of the handlers of Next, or  *)
(* to none (aiogram then drops it: a stuttering step)                      *)
PayoutHandlers ==
  {"superadmin_view_department", "back_to_main", "show_employee_card",
   "give_salary", "add_bonus_start", "add_bonus_comment", "add_bonus_finish",
   "add_deduction_start", "add_deduction_comment", "add_deduction_finish"}

PayoutRoutesCovered ==
  \A u \in PayoutUsers, t \in PayoutTexts : Route(u, t) \in PayoutHandlers \cup {"unhandled"}

(* the step the bot takes on message t of user u when the database calls   *)
(* f raise: the routed handler                                            *)
HandleWith(u, t, f) ==
  \/ cmd_start(u, t, f)
  \/ cmd_help(u, t, f)
  \/ superadmin_add_department_start(u, t, f)
  \/ superadmin_add_department_finish(u, t, f)
  \/ add_employee_start(u, t, f)
  \/ add_employee_enter_position(u, t, f)
  \/ add_employee_choose_department(u, t, f)
  \/ add_employee_finish_superadmin(u, t, f)
  \/ superadmin_all_employees(u, t, f)
  \/ manager_my_employees(u, t, f)
  \/ superadmin_view_department(u, t, f)
  \/ back_to_main(u, t, f)
  \/ accrual_start(u, t, f)
  \/ accrual_choose_employee(u, t, f)
  \/ accrual_enter_amount(u, t, f)
  \/ accrual_finish(u, t, f)
  \/ employee_balance(u, t, f)
  \/ show_employee_card(u, t, f)
  \/ back_to_employee_list(u, t, f)
  \/ give_advance(u, t, f)
  \/ give_salary(u, t, f)
  \/ change_salary_start(u, t, f)
  \/ change_salary_finish(u, t, f)
  \/ add_bonus_start(u, t, f)
  \/ add_bonus_comment(u, t, f)
  \/ add_bonus_finish(u, t, f)
  \/ add_deduction_start(u, t, f)
  \/ add_deduction_comment(u, t, f)
  \/ add_deduction_finish(u, t, f)

(* the step the bot takes on message t of user u: the routed handler *)
Handle(u, t) == HandleWith(u, t, NoFaults)

(* the employee pinned in u's context, 0 when none *)
Pinned(u) == data_get(u, "current_employee_id")

(* balanceOf: the balance of an employee over the whole ledger *)
balanceOf(e) == get_employee_balance(accruals, e, NoFaults)

(* the table grew by exactly one row and kept the rows it had *)
AppendedOne(old, new) ==
  /\ Len(new) = Len(old) + 1
  /\ SubSeq(new, 1, Len(old)) = old

(* C5: GiveSalaryPayout on a pinned employee whose balance is zero or      *)
(* negative appends no record, changes no store and answers with the       *)
(* no-op message.                                                          *)
C5_PayoutNoopWhenNothingOwed ==
  [][\A u \in Users :
       (/\ get_user_role(u, NoFaults) = ROLE_SUPERADMIN
        /\ Pinned(u) # 0
        /\ balanceOf(Pinned(u)) <= 0
        /\ Handle(u, BTN_GIVE_SALARY))
       => (/\ UNCHANGED stores
           /\ replies' = <<"nothing to pay">>)]_vars

C5_Witness ==
  /\ replies = <<"nothing to pay">>
  /\ Pinned("sa") # 0
  /\ balanceOf(Pinned("sa")) < 0
  /\ accruals # <<>>

C8_AdvanceButtonAppendsAdvance ==
  [][\A u \in Users :
       (/\ Handle(u, BTN_GIVE_ADVANCE)
        /\ get_user_role(u, NoFaults) = ROLE_SUPERADMIN
        /\ Pinned(u) # 0)
       => (/\ AppendedOne(accruals, accruals')
           /\ accruals'[Len(accruals')].kind = "advance"
           /\ accruals'[Len(accruals')].amount = ADVANCE_AMOUNT
           /\ accruals'[Len(accruals')].employee_id = Pinned(u))]_vars

(* ------------------ the ledger alone (SpecBalance) --------------------- *)
(* add_accrual is called with any employee, amount and kind, the kinds     *)
(* including the one the CHECK constraint refuses.                         *)
BalanceEmployees == {2, 3}
BalanceAmounts == {100, 250}
BalanceKinds == AccrualKinds \cup {ACCRUAL_FINISH_KIND}

AddAccrual(e, a, k) ==
  /\ accruals' = add_accrual(accruals, e, a, k, <<"note">>, "sa", NoFaults).accruals
  /\ UNCHANGED <<departments, employees, context, replies>>

InitBalance == InitWith(<<>>)

NextBalance ==
  \E e \in BalanceEmployees, a \in BalanceAmounts, k \in BalanceKinds :
    AddAccrual(e, a, k) /\ Capped' /\ UNCHANGED suspended

SpecBalance == InitBalance /\ [][NextBalance]_vars

(* the sum of the amounts of the rows ids of a table, one row at a time in *)
(* no particular order                                                     *)
RECURSIVE SumRows(_, _)
SumRows(table, ids) ==
  IF ids = {} THEN 0
  ELSE LET i == CHOOSE j \in ids : TRUE
       IN table[i].amount + SumRows(table, ids \ {i})

(* the signed fold of the records of employee e: the positive kinds minus  *)
(* the negative kinds                                                      *)
SignedFold(table, e) ==
  SumRows(table, {i \in RowIds(table) : /\ table[i].employee_id = e
                                        /\ table[i].kind \in {"salary", "bonus"}})
  - SumRows(table, {i \in RowIds(table) :
                      /\ table[i].employee_id = e
                      /\ table[i].kind \in {"payout", "advance", "deduction"}})

(* the table with its rows rearranged by the permutation p of its ids *)
Rearranged(table, p) == [i \in RowIds(table) |-> table[p[i]]]

ManagerUsers == {"mg"}

ManagerTexts ==
  {BTN_ACCRUAL, TXT_PICK_BORIS, TXT_PICK_CLARA, TXT_FIVE, TXT_CARD_CLARA,
   BTN_ADD_BONUS, BTN_BACK_MAIN}

InitManager == InitWith(<<>>)

NextManager ==
  \E u \in ManagerUsers, t \in ManagerTexts :
    \/ back_to_main(u, t, NoFaults) /\ Capped' /\ UNCHANGED suspended
    \/ accrual_start(u, t, NoFaults) /\ Capped' /\ UNCHANGED suspended
    \/ accrual_choose_employee(u, t, NoFaults) /\ Capped' /\ UNCHANGED suspended
    \/ accrual_enter_amount(u, t, NoFaults) /\ Capped' /\ UNCHANGED suspended
    \/ accrual_finish(u, t, NoFaults) /\ Capped' /\ UNCHANGED suspended
    \/ show_employee_card(u, t, NoFaults) /\ Capped' /\ UNCHANGED suspended
    \/ add_bonus_start(u, t, NoFaults) /\ Capped' /\ UNCHANGED suspended
    \/ add_bonus_comment(u, t, NoFaults) /\ Capped' /\ UNCHANGED suspended
    \/ add_bonus_finish(u, t, NoFaults) /\ Capped' /\ UNCHANGED suspended

SpecManager == InitManager /\ [][NextManager]_vars

ManagerHandlers ==
  {"back_to_main", "accrual_start", "accrual_choose_employee",
   "accrual_enter_amount", "accrual_finish", "show_employee_card",
   "add_bonus_start", "add_bonus_comment", "add_bonus_finish"}

ManagerRoutesCovered ==
  \A u \in ManagerUsers, t \in ManagerTexts :
    Route(u, t) \in ManagerHandlers \cup {"unhandled"}

(* the employees in the scope of manager u: those of u's departments *)
InScope(u) ==
  UNION {get_department_employees(d, NoFaults) :
           d \in get_manager_departments(u, NoFaults)}

(* C2: in the RecordAccrual flow's awaiting-employee step, a selection     *)
(* that names an employee outside the manager's departments is rejected:   *)
(* the flow does not advance and the selection is not stored.              *)
C2_AccrualSelectionOutOfScopeRejected ==
  [][\A u \in Users, t \in ManagerTexts :
       LET employee_id == int(split_first(strip(t), ":"))
       IN (/\ Handle(u, t)
           /\ Route(u, t) = "accrual_choose_employee"
           /\ get_user_role(u, NoFaults) = ROLE_MANAGER
           /\ employee_id.ok
           /\ employee_id.val \in RowIds(employees)
           /\ employee_id.val \notin InScope(u))
          => (/\ fsm_state'[u] # Accrual_amount
              /\ ~has(fsm_data'[u], "employee_id")
              /\ UNCHANGED stores)]_vars

(* C3: a manager pins an employee, and commits a bonus, a deduction or a   *)
(* salary change, only for employees of the manager's own departments.     *)
C3_ManagerActsOnlyInScope ==
  /\ \A u \in Users :
       (get_user_role(u, NoFaults) = ROLE_MANAGER /\ Pinned(u) # 0)
         => Pinned(u) \in InScope(u)
  /\ \A i \in RowIds(accruals) :
       (/\ accruals[i].created_by # NULL
        /\ get_user_role(accruals[i].created_by, NoFaults) = ROLE_MANAGER)
         => accruals[i].employee_id \in InScope(accruals[i].created_by)

(* C7: the terminal step of a manager's RecordAccrual flow, for a chosen   *)
(* employee of the manager's scope, appends exactly one record, for that   *)
(* employee and the entered amount, with a kind of the closed set and with *)
(* the current period.                                                     *)
C7_AccrualFinishAppendsRecord ==
  [][\A u \in Users, t \in ManagerTexts :
       (/\ Handle(u, t)
        /\ Route(u, t) = "accrual_finish"
        /\ get_user_role(u, NoFaults) = ROLE_MANAGER
        /\ data_get(u, "employee_id") \in InScope(u))
       => (/\ AppendedOne(accruals, accruals')
           /\ accruals'[Len(accruals')].employee_id = data_get(u, "employee_id")
           /\ accruals'[Len(accruals')].amount = data_get(u, "amount")
           /\ accruals'[Len(accruals')].kind \in AccrualKinds
           /\ accruals'[Len(accruals')].period = current_period)]_vars

(* --------------- every role at the menus (SpecGate) -------------------- *)
(* The superadmin, the manager, the employee and a stranger press the menu *)
(* buttons of every role, in and out of a flow.                            *)
GateUsers == {"sa", "mg", "em", "un"}

GateTexts ==
  {BTN_ALL_EMPLOYEES, BTN_MY_EMPLOYEES, BTN_ACCRUAL, BTN_MY_SALARY,
   BTN_ADD_BONUS, BTN_GIVE_SALARY, TXT_CARD_BORIS, BTN_BACK_MAIN}

InitGate == InitWith(<<>>)

NextGate ==
  \E u \in GateUsers, t \in GateTexts :
    \/ superadmin_all_employees(u, t, NoFaults) /\ Capped' /\ UNCHANGED suspended
    \/ manager_my_employees(u, t, NoFaults) /\ Capped' /\ UNCHANGED suspended
    \/ back_to_main(u, t, NoFaults) /\ Capped' /\ UNCHANGED suspended
    \/ accrual_start(u, t, NoFaults) /\ Capped' /\ UNCHANGED suspended
    \/ accrual_choose_employee(u, t, NoFaults) /\ Capped' /\ UNCHANGED suspended
    \/ employee_balance(u, t, NoFaults) /\ Capped' /\ UNCHANGED suspended
    \/ show_employee_card(u, t, NoFaults) /\ Capped' /\ UNCHANGED suspended
    \/ give_salary(u, t, NoFaults) /\ Capped' /\ UNCHANGED suspended
    \/ add_bonus_start(u, t, NoFaults) /\ Capped' /\ UNCHANGED suspended

SpecGate == InitGate /\ [][NextGate]_vars

GateHandlers ==
  {"superadmin_all_employees", "manager_my_employees", "back_to_main",
   "accrual_start", "accrual_choose_employee", "employee_balance",
   "show_employee_card", "give_salary", "add_bonus_start"}

GateRoutesCovered ==
  \A u \in GateUsers, t \in GateTexts :
    Route(u, t) \in GateHandlers \cup {"unhandled"}

(* the role check of the handler that gets message t of user u denies *)
Denied(u, t) == get_user_role(u, NoFaults) \notin AllowedRoles(Route(u, t))

(* C10: when the role check denies a message, the sender's step and data,  *)
(* everybody else's, the ledger and the directory are what they were.      *)
C10_DenialChangesNothing ==
  [][\A u \in Users, t \in GateTexts :
       (Handle(u, t) /\ Denied(u, t)) => UNCHANGED <<stores, context>>]_vars

(* a refusal was sent while the manager is choosing an employee for an     *)
(* accrual and the superadmin, with a card open, is entering a bonus       *)
C10_Witness ==
  /\ replies = <<"no access">>
  /\ fsm_state["mg"] = Accrual_employee
  /\ fsm_state["sa"] = AddBonus_amount
  /\ Pinned("sa") # 0

(* ------------ the superadmin's directory (SpecDirectory) --------------- *)
(* The superadmin adds departments, by new names and by names already      *)
(* taken, and in between opens a department and a card; the manager sends  *)
(* the same texts.                                                         *)
TXT_SALES == DEPT_SALES
TXT_SALES_PADDED == <<" ", "Sales", " ">>

DirectoryUsers == {"sa", "mg"}

DirectoryTexts ==
  {BTN_ADD_DEPARTMENT, TXT_SALES, TXT_SALES_PADDED, TXT_WORD, TXT_BLANK,
   BTN_BACK_MAIN, TXT_DEPT_SALES, TXT_CARD_BORIS}

InitDirectory == InitWith(<<>>)

NextDirectory ==
  \E u \in DirectoryUsers, t \in DirectoryTexts :
    \/ superadmin_add_department_start(u, t, NoFaults) /\ Capped' /\ UNCHANGED suspended
    \/ superadmin_add_department_finish(u, t, NoFaults) /\ Capped' /\ UNCHANGED suspended
    \/ superadmin_view_department(u, t, NoFaults) /\ Capped' /\ UNCHANGED suspended
    \/ back_to_main(u, t, NoFaults) /\ Capped' /\ UNCHANGED suspended
    \/ show_employee_card(u, t, NoFaults) /\ Capped' /\ UNCHANGED suspended

SpecDirectory == InitDirectory /\ [][NextDirectory]_vars

DirectoryHandlers ==
  {"superadmin_add_department_start", "superadmin_add_department_finish",
   "superadmin_view_department", "back_to_main", "show_employee_card"}

DirectoryRoutesCovered ==
  \A u \in DirectoryUsers, t \in DirectoryTexts :
    Route(u, t) \in DirectoryHandlers \cup {"unhandled"}

(* C9: when the name given to AddDepartment is the name of a department    *)
(* that exists, no row is stored, the names stay pairwise distinct, the    *)
(* user is told of the error and the flow ends with the sender's step and  *)
(* data cleared.                                                           *)
C9_DuplicateDepartmentRejected ==
  [][\A u \in Users, t \in DirectoryTexts :
       (/\ Handle(u, t)
        /\ Route(u, t) = "superadmin_add_department_finish"
        /\ get_user_role(u, NoFaults) = ROLE_SUPERADMIN
        /\ \E i \in RowIds(departments) : departments[i].name = strip(t))
       => (/\ UNCHANGED stores
           /\ \A i, j \in RowIds(departments') :
                departments'[i].name = departments'[j].name => i = j
           /\ replies' = <<"error adding department">>
           /\ fsm_state'[u] = NULL
           /\ fsm_data'[u] = EmptyData)]_vars

(* the error was sent for a name taken by a department added in the        *)
(* dialogue                                                                *)
C9_Witness ==
  /\ replies = <<"error adding department">>
  /\ Len(departments) > Len(InitDepartments)
  /\ fsm_state["sa"] = NULL
  /\ fsm_data["sa"] = EmptyData

(* ----------------------- the ledger's history -------------------------- *)
(* the history of employee e as the handlers read it: no period given *)
history(table, e) == get_employee_accruals(table, e, NULL, NoFaults)

(* the employee of the newest row of a table *)
last_employee(table) == table[Len(table)].employee_id

(* C4 as stated: a step changes the ledger only by appending one record    *)
(* and leaving the others as they were, and after the append the history   *)
(* of that record's employee is the history before it plus the new record. *)
C4_HistoryGrowsByOne ==
  [][/\ accruals' # accruals => AppendedOne(accruals, accruals')
     /\ AppendedOne(accruals, accruals')
          => history(accruals', last_employee(accruals'))
               = <<Len(accruals')>> \o history(accruals, last_employee(accruals'))
    ]_vars

(* C4, amended: a step changes the ledger only by appending one record and *)
(* leaving the others as they were; when the employee had fewer than 20    *)
(* records before the append, the history after it is the history before   *)
(* it plus the new record.                                                 *)
C4_AppendKeepsHistory ==
  [][/\ accruals' # accruals => AppendedOne(accruals, accruals')
     /\ (/\ AppendedOne(accruals, accruals')
         /\ Len(history(accruals, last_employee(accruals'))) < HistoryLimit)
          => history(accruals', last_employee(accruals'))
               = <<Len(accruals')>> \o history(accruals, last_employee(accruals'))
    ]_vars

(* a record was appended through the dialogue to 19 earlier ones of the    *)
(* same employee, and the history holds all 20                             *)
C4_Witness ==
  /\ Len(accruals) = HistoryLimit
  /\ accruals[HistoryLimit].created_by = "sa"
  /\ accruals[HistoryLimit - 1].created_by = NULL
  /\ history(accruals, last_employee(accruals)) = newest_first(RowIds(accruals))

(* C11: every message whose handler's role check denies the sender is      *)
(* answered with a refusal; none is dropped without an answer.             *)
C11_DenialIsAnswered ==
  [][\A u \in Users, t \in GateTexts :
       (Handle(u, t) /\ Denied(u, t)) => replies' = <<"no access">>]_vars

(* ---------------- the card's flows (SpecSalary) ------------------------- *)
(* The superadmin opens Boris's card or not, and changes the salary, adds  *)
(* bonuses and deductions; the employee and a stranger send the same       *)
(* texts.                                                                  *)
SalaryUsers == {"sa", "em", "un"}

SalaryTexts ==
  {TXT_CARD_BORIS, BTN_CHANGE_SALARY, BTN_ADD_BONUS, BTN_ADD_DEDUCTION,
   TXT_FIVE, TXT_ZERO}

InitSalary == InitWith(<<>>)

NextSalary ==
  \E u \in SalaryUsers, t \in SalaryTexts :
    \/ show_employee_card(u, t, NoFaults) /\ Capped' /\ UNCHANGED suspended
    \/ change_salary_start(u, t, NoFaults) /\ Capped' /\ UNCHANGED suspended
    \/ change_salary_finish(u, t, NoFaults) /\ Capped' /\ UNCHANGED suspended
    \/ add_bonus_start(u, t, NoFaults) /\ Capped' /\ UNCHANGED suspended
    \/ add_bonus_comment(u, t, NoFaults) /\ Capped' /\ UNCHANGED suspended
    \/ add_bonus_finish(u, t, NoFaults) /\ Capped' /\ UNCHANGED suspended
    \/ add_deduction_start(u, t, NoFaults) /\ Capped' /\ UNCHANGED suspended
    \/ add_deduction_comment(u, t, NoFaults) /\ Capped' /\ UNCHANGED suspended
    \/ add_deduction_finish(u, t, NoFaults) /\ Capped' /\ UNCHANGED suspended

SpecSalary == InitSalary /\ [][NextSalary]_vars

SalaryHandlers ==
  {"show_employee_card", "change_salary_start", "change_salary_finish",
   "add_bonus_start", "add_bonus_comment", "add_bonus_finish",
   "add_deduction_start", "add_deduction_comment", "add_deduction_finish"}

SalaryRoutesCovered ==
  \A u \in SalaryUsers, t \in SalaryTexts :
    Route(u, t) \in SalaryHandlers \cup {"unhandled"}

(* the users whose role resolves to Employee or Unknown *)
Outsiders ==
  {u \in Users : get_user_role(u, NoFaults) \in {ROLE_EMPLOYEE, ROLE_UNKNOWN}}

(* C12: no message of a user whose role is Employee or Unknown changes the *)
(* directory or the ledger; such a user never has an active step or a      *)
(* pinned employee, and no ledger record was created by one.               *)
C12_OutsidersMutateNothing ==
  /\ [][\A u \in Outsiders, t \in SalaryTexts :
          UNCHANGED stores \/ ~Handle(u, t)]_vars
  /\ [](\A u \in Outsiders : fsm_state[u] = NULL /\ Pinned(u) = 0)
  /\ [](\A i \in RowIds(accruals) : accruals[i].created_by \notin Outsiders)

(* the employee or the stranger was turned away without an answer while    *)
(* the ledger holds records and Boris's salary is set                      *)
C12_Witness ==
  /\ replies = <<>>
  /\ accruals # <<>>
  /\ employees[2].salary # 0

(* C13: in every active step the 'back to main menu' text abandons the     *)
(* flow: the step is cleared and no store changes, the text not being      *)
(* taken as the step's value.                                              *)
C13_BackAbandonsFlow ==
  [][\A u \in Users :
       (Handle(u, BTN_BACK_MAIN) /\ fsm_state[u] # NULL)
         => (fsm_state'[u] = NULL /\ UNCHANGED stores)]_vars

(* the value of key k in the data d of a conversation, 0 when absent *)
value_of(d, k) == IF has(d, k) THEN d[k] ELSE 0

(* the pinned selection of the data d: department and employee *)
pinned_selection(d) ==
  <<value_of(d, "current_department_id"), value_of(d, "current_employee_id")>>

(* C14: after a 'back' text the pinned department and employee are what    *)
(* they were before it, and the sender has no active step.                 *)
C14_BackKeepsPinnedSelection ==
  [][\A u \in Users, t \in {BTN_BACK_MAIN, BTN_BACK_LIST} :
       Handle(u, t)
         => (/\ pinned_selection(fsm_data'[u]) = pinned_selection(fsm_data[u])
             /\ fsm_state'[u] = NULL)]_vars

(* the handlers of the terminal steps of the flows *)
TerminalHandlers ==
  {"superadmin_add_department_finish", "add_employee_choose_department",
   "add_employee_finish_superadmin", "accrual_finish", "change_salary_finish",
   "add_bonus_finish", "add_deduction_finish"}

(* message t of user u ends a flow: a terminal handler takes it and leaves *)
(* the sender without an active step                                       *)
CompletesFlow(u, t) ==
  /\ Handle(u, t)
  /\ Route(u, t) \in TerminalHandlers
  /\ fsm_state'[u] = NULL

(* C15: the completion of a flow, with success or with an error, leaves    *)
(* the pinned department and employee as they were.                        *)
C15_CompletionKeepsPinnedSelection ==
  [][\A u \in Users, t \in DirectoryTexts :
       CompletesFlow(u, t)
         => pinned_selection(fsm_data'[u]) = pinned_selection(fsm_data[u])]_vars

(* the keys the flows write for their own steps *)
FlowKeys ==
  {"full_name", "position", "employee_id", "amount", "bonus_amount",
   "deduction_amount"}

(* C16: when a flow completes, the sender's data holds none of the flows'  *)
(* own keys.                                                               *)
C16_CompletionClearsFlowKeys ==
  [][\A u \in Users, t \in PayoutTexts :
       CompletesFlow(u, t) => (DOMAIN fsm_data'[u]) \cap FlowKeys = {}]_vars

(* ------------- inputs the steps refuse (SpecReprompt) ------------------ *)
(* The superadmin starts AddDepartment and AddEmployee, the manager the    *)
(* accrual, salary, bonus and deduction flows, and both answer the steps   *)
(* with blanks, zero, a negative number and a word.                        *)
TXT_MINUS_FIVE == <<"-", "5">>

RepromptUsers == {"sa", "mg"}

RepromptTexts(u) ==
  IF u = "sa"
    THEN {BTN_ADD_DEPARTMENT, BTN_ADD_EMPLOYEE, TXT_BLANK, TXT_ZERO}
    ELSE {BTN_ACCRUAL, BTN_CHANGE_SALARY, BTN_ADD_BONUS, BTN_ADD_DEDUCTION,
          TXT_BLANK, TXT_ZERO, TXT_WORD, TXT_MINUS_FIVE}

AllRepromptTexts == UNION {RepromptTexts(u) : u \in RepromptUsers}

InitReprompt == InitWith(<<>>)

NextReprompt ==
  \E u \in RepromptUsers : \E t \in RepromptTexts(u) :
    \/ superadmin_add_department_start(u, t, NoFaults) /\ Capped' /\ UNCHANGED suspended
    \/ superadmin_add_department_finish(u, t, NoFaults) /\ Capped' /\ UNCHANGED suspended
    \/ add_employee_start(u, t, NoFaults) /\ Capped' /\ UNCHANGED suspended
    \/ add_employee_enter_position(u, t, NoFaults) /\ Capped' /\ UNCHANGED suspended
    \/ add_employee_choose_department(u, t, NoFaults) /\ Capped' /\ UNCHANGED suspended
    \/ add_employee_finish_superadmin(u, t, NoFaults) /\ Capped' /\ UNCHANGED suspended
    \/ accrual_start(u, t, NoFaults) /\ Capped' /\ UNCHANGED suspended
    \/ accrual_choose_employee(u, t, NoFaults) /\ Capped' /\ UNCHANGED suspended
    \/ accrual_enter_amount(u, t, NoFaults) /\ Capped' /\ UNCHANGED suspended
    \/ change_salary_start(u, t, NoFaults) /\ Capped' /\ UNCHANGED suspended
    \/ change_salary_finish(u, t, NoFaults) /\ Capped' /\ UNCHANGED suspended
    \/ add_bonus_start(u, t, NoFaults) /\ Capped' /\ UNCHANGED suspended
    \/ add_bonus_comment(u, t, NoFaults) /\ Capped' /\ UNCHANGED suspended
    \/ add_deduction_start(u, t, NoFaults) /\ Capped' /\ UNCHANGED suspended
    \/ add_deduction_comment(u, t, NoFaults) /\ Capped' /\ UNCHANGED suspended

SpecReprompt == InitReprompt /\ [][NextReprompt]_vars

RepromptHandlers ==
  {"superadmin_add_department_start", "superadmin_add_department_finish",
   "add_employee_start", "add_employee_enter_position",
   "add_employee_choose_department", "add_employee_finish_superadmin",
   "accrual_start", "accrual_choose_employee", "accrual_enter_amount",
   "change_salary_start", "change_salary_finish", "add_bonus_start",
   "add_bonus_comment", "add_deduction_start", "add_deduction_comment"}

RepromptRoutesCovered ==
  \A u \in RepromptUsers : \A t \in RepromptTexts(u) :
    Route(u, t) \in RepromptHandlers \cup {"unhandled"}

(* the steps that require a text, an employee selection, a positive        *)
(* amount                                                                  *)
TextSteps ==
  {"superadmin_add_department_finish", "add_employee_enter_position",
   "add_employee_choose_department"}
SelectionSteps == {"accrual_choose_employee"}
AmountSteps == {"accrual_enter_amount", "add_bonus_comment", "add_deduction_comment"}

(* text t fails the validation of the step of handler h *)
FailsValidation(h, t) ==
  \/ h \in TextSteps /\ strip(t) = <<>>
  \/ h \in SelectionSteps /\ ~int(split_first(strip(t), ":")).ok
  \/ h \in AmountSteps /\ LET a == float(comma_to_dot(t)) IN ~a.ok \/ a.val <= 0
  \/ h = "change_salary_finish" /\ LET a == float(comma_to_dot(t)) IN ~a.ok \/ a.val < 0

(* the messages that ask for a step's value again *)
RePrompts ==
  {<<"empty name, enter department name">>, <<"empty name, enter full name">>,
   <<"empty position, enter position">>,
   <<"bad format, press an employee button">>,
   <<"bad amount, enter a positive number">>}

(* C17: when a step's handler gets a text that fails the step's            *)
(* validation, the sender's step and data and both stores stay as they     *)
(* were and the bot asks for the same value again.                         *)
C17_InvalidInputReprompts ==
  [][\A u \in Users, t \in AllRepromptTexts :
       (/\ ~Denied(u, t)
        /\ FailsValidation(Route(u, t), t)
        /\ Handle(u, t))
       => (/\ UNCHANGED <<stores, context>>
           /\ replies' \in RePrompts)]_vars

(* the manager was asked again for an accrual amount, the superadmin is at *)
(* the position step of AddEmployee                                        *)
C17_Witness ==
  /\ replies = <<"bad amount, enter a positive number">>
  /\ fsm_state["mg"] = Accrual_amount
  /\ has(fsm_data["mg"], "employee_id")
  /\ fsm_state["sa"] = AddEmployee_position

(* C18: the SetSalary amount step takes zero: with an employee pinned, the *)
(* text "0" sets that employee's salary to zero and ends the flow.         *)
C18_SetSalaryAcceptsZero ==
  [][\A u \in Users :
       (/\ Route(u, TXT_ZERO) = "change_salary_finish"
        /\ Pinned(u) \in RowIds(employees)
        /\ Handle(u, TXT_ZERO))
       => (/\ employees'[Pinned(u)].salary = 0
           /\ fsm_state'[u] = NULL
           /\ replies' = <<"salary changed", "card">>)]_vars

(* the handlers that commit against the pinned employee *)
CardCommitHandlers ==
  {"change_salary_finish", "add_bonus_finish", "add_deduction_finish"}

(* C19: when SetSalary, AddBonus or AddDeduction gets to its commit with   *)
(* no employee pinned, the bot answers with a message, the sender's step   *)
(* and data are cleared and no store changes.                              *)
C19_CommitWithoutPinnedEmployeeAborts ==
  [][\A u \in Users, t \in SalaryTexts :
       (/\ Pinned(u) = 0
        /\ Route(u, t) \in CardCommitHandlers
        /\ Route(u, t) = "change_salary_finish" => ~validate_amount(t).none
        /\ Handle(u, t))
       => (/\ UNCHANGED stores
           /\ fsm_state'[u] = NULL
           /\ fsm_data'[u] = EmptyData
           /\ replies' \in {<<"employee not selected">>, <<"data error">>})]_vars

(* a bonus reached its commit with nobody pinned and the flow was ended *)
C19_Witness ==
  /\ replies = <<"data error">>
  /\ fsm_state["sa"] = NULL
  /\ fsm_data["sa"] = EmptyData

(* --------------------- hiring (SpecHire) ------------------------------- *)
(* The superadmin and the manager run AddEmployee; the texts are a word    *)
(* and, for the superadmin, the button of department Depot.                *)
HireUsers == {"sa", "mg"}

HireTexts(u) ==
  IF u = "sa" THEN {BTN_ADD_EMPLOYEE, TXT_WORD, TXT_DEPT_DEPOT}
              ELSE {BTN_ADD_EMPLOYEE, TXT_WORD}

AllHireTexts == UNION {HireTexts(u) : u \in HireUsers}

InitHire == InitWith(<<>>)

NextHire ==
  \E u \in HireUsers : \E t \in HireTexts(u) :
    \/ add_employee_start(u, t, NoFaults) /\ Capped' /\ UNCHANGED suspended
    \/ add_employee_enter_position(u, t, NoFaults) /\ Capped' /\ UNCHANGED suspended
    \/ add_employee_choose_department(u, t, NoFaults) /\ Capped' /\ UNCHANGED suspended
    \/ add_employee_finish_superadmin(u, t, NoFaults) /\ Capped' /\ UNCHANGED suspended
    \/ superadmin_view_department(u, t, NoFaults) /\ Capped' /\ UNCHANGED suspended

SpecHire == InitHire /\ [][NextHire]_vars

HireHandlers ==
  {"add_employee_start", "add_employee_enter_position",
   "add_employee_choose_department", "add_employee_finish_superadmin",
   "superadmin_view_department"}

HireRoutesCovered ==
  \A u \in HireUsers : \A t \in HireTexts(u) :
    Route(u, t) \in HireHandlers \cup {"unhandled"}

(* the department a text names once the department emoji are taken off,    *)
(* 0 when it names none                                                    *)
named_department(t) ==
  department_by_name(strip(SelectSeq(t, LAMBDA c : c \notin DeptGlyphs)), NoFaults)

(* C20: a manager's new employee is created at the position step, with no *)
(* department step, in a department of the manager; a superadmin's new     *)
(* employee is created at the department step in the existing department   *)
(* the text names; a text that names no department creates no employee.    *)
C20_NewEmployeeDepartment ==
  /\ [][\A u \in Users, t \in AllHireTexts :
          (Handle(u, t) /\ employees' # employees)
            => (/\ AppendedOne(employees, employees')
                /\ LET new == employees'[Len(employees')]
                       role == get_user_role(u, NoFaults)
                   IN /\ new.full_name = fsm_data[u]["full_name"]
                      /\ role \in {ROLE_MANAGER, ROLE_SUPERADMIN}
                      /\ role = ROLE_MANAGER =>
                           /\ fsm_state[u] = AddEmployee_position
                           /\ new.department_id \in get_manager_departments(u, NoFaults)
                      /\ role = ROLE_SUPERADMIN =>
                           /\ fsm_state[u] = AddEmployee_department
                           /\ new.department_id \in RowIds(departments)
                           /\ new.department_id = named_department(t))]_vars
  /\ [][\A u \in Users, t \in AllHireTexts :
          (/\ Handle(u, t)
           /\ Route(u, t) = "add_employee_finish_superadmin"
           /\ named_department(t) = 0)
          => UNCHANGED stores]_vars
  /\ [](\A u \in Users : get_user_role(u, NoFaults) = ROLE_MANAGER
                           => fsm_state[u] # AddEmployee_department)

(* the manager of Sales has added an employee, who is in Sales *)
C20_Witness ==
  /\ replies = <<"employee added to your department">>
  /\ Len(employees) > Len(InitEmployees)
  /\ employees[Len(employees)].department_id = 1

(* ------------- AddBonus and AddDeduction commits (C21) ----------------- *)
(* the amount a flow keeps in the context under key k, the kind it writes  *)
BonusDeductionCommits ==
  {[handler |-> "add_bonus_finish", key |-> "bonus_amount",
    kind |-> "bonus", sign |-> 1],
   [handler |-> "add_deduction_finish", key |-> "deduction_amount",
    kind |-> "deduction", sign |-> -1]}

(* C21: completing AddBonus (AddDeduction) with employee e pinned and      *)
(* validated amount a appends exactly one record (e, a, bonus resp.        *)
(* deduction, created by the sender) carrying the current period, and e's  *)
(* balance moves by +a (resp. -a).                                         *)
C21_BonusDeductionCommit ==
  [][\A u \in Users, t \in PayoutTexts, c \in BonusDeductionCommits :
       (/\ Route(u, t) = c.handler
        /\ Pinned(u) # 0
        /\ data_get(u, c.key) # 0
        /\ Handle(u, t))
       => LET e == Pinned(u)
              a == data_get(u, c.key)
              new == accruals'[Len(accruals')]
          IN /\ AppendedOne(accruals, accruals')
             /\ new.employee_id = e
             /\ new.amount = a
             /\ new.kind = c.kind
             /\ new.created_by = u
             /\ new.period = current_period
             /\ get_employee_balance(accruals', e, NoFaults)
                  = balanceOf(e) + c.sign * a]_vars

(* a deduction of 5 was just committed on top of a bonus for Boris *)
C21_Witness ==
  /\ replies = <<"deduction added", "card">>
  /\ Len(accruals) >= 2
  /\ accruals[Len(accruals)].kind = "deduction"
  /\ accruals[Len(accruals)].period = current_period
  /\ accruals[Len(accruals) - 1].kind = "bonus"
  /\ accruals[Len(accruals) - 1].created_by = "sa"

(* ------------------- store failures (SpecFaults) ----------------------- *)
(* The superadmin opens Boris's card, adds bonuses and deductions and pays *)
(* the salary out, while the INSERT of add_accrual or the period UPDATE    *)
(* may raise in any handling.                                              *)
FaultUsers == {"sa"}

FaultTexts ==
  {TXT_CARD_BORIS, BTN_GIVE_SALARY, BTN_ADD_BONUS, BTN_ADD_DEDUCTION, TXT_FIVE}

(* the database calls of a commit that may raise *)
CommitFaults == SUBSET {"add_accrual", "assign_period"}

InitFaults == InitWith(<<>>)

NextFaults ==
  \E u \in FaultUsers, t \in FaultTexts, f \in CommitFaults :
    \/ show_employee_card(u, t, f) /\ Capped' /\ UNCHANGED suspended
    \/ give_salary(u, t, f) /\ Capped' /\ UNCHANGED suspended
    \/ add_bonus_start(u, t, f) /\ Capped' /\ UNCHANGED suspended
    \/ add_bonus_comment(u, t, f) /\ Capped' /\ UNCHANGED suspended
    \/ add_bonus_finish(u, t, f) /\ Capped' /\ UNCHANGED suspended
    \/ add_deduction_start(u, t, f) /\ Capped' /\ UNCHANGED suspended
    \/ add_deduction_comment(u, t, f) /\ Capped' /\ UNCHANGED suspended
    \/ add_deduction_finish(u, t, f) /\ Capped' /\ UNCHANGED suspended

SpecFaults == InitFaults /\ [][NextFaults]_vars

FaultHandlers ==
  {"show_employee_card", "give_salary", "add_bonus_start", "add_bonus_comment",
   "add_bonus_finish", "add_deduction_start", "add_deduction_comment",
   "add_deduction_finish"}

FaultRoutesCovered ==
  \A u \in FaultUsers, t \in FaultTexts :
    Route(u, t) \in FaultHandlers \cup {"unhandled"}

(* the handling of message t of user u in which the calls f raise, by one  *)
(* of the handlers that commit to the ledger                               *)
CommitWith(u, t, f) ==
  \/ give_salary(u, t, f)
  \/ add_bonus_finish(u, t, f)
  \/ add_deduction_finish(u, t, f)

(* the messages sent when the try block of a commit raises *)
CommitFailureReplies == {<<"error">>, <<"error paying salary">>}

(* C24: a commit in which the INSERT or the period UPDATE raises leaves    *)
(* the ledger as it was before the commit, answers with a failure message  *)
(* and, in AddBonus and AddDeduction, clears the sender's step and data.   *)
C24_FailedCommitLeavesLedger ==
  [][\A u \in FaultUsers, t \in FaultTexts, f \in CommitFaults \ {NoFaults} :
       (/\ Pinned(u) # 0
        /\ Route(u, t) = "give_salary" => balanceOf(Pinned(u)) > 0
        /\ Route(u, t) = "add_bonus_finish" => data_get(u, "bonus_amount") # 0
        /\ Route(u, t) = "add_deduction_finish"
             => data_get(u, "deduction_amount") # 0
        /\ CommitWith(u, t, f))
       => (/\ accruals' = accruals
           /\ replies' \in CommitFailureReplies
           /\ Route(u, t) # "give_salary"
                => fsm_state'[u] = NULL /\ fsm_data'[u] = EmptyData)]_vars

(* ------------------ role resolution (SpecResolve) ---------------------- *)
(* The directory the bot starts with varies: Anna may be inactive, Clara   *)
(* may be bound to the superadmin's or to the stranger's identifier, as an *)
(* employee or a manager, active or not.  Every user sends commands and    *)
(* buttons, and in any handling the queries of get_user_role and           *)
(* get_manager_departments may raise.                                      *)
ResolveUsers == {"sa", "mg", "em", "un"}

ResolveTexts ==
  {CMD_START, BTN_BACK_MAIN, BTN_ACCRUAL, TXT_PICK_BORIS, TXT_CARD_BORIS}

(* the role queries raising *)
ResolverDown == {"get_user_role", "get_manager_departments"}

ResolveFaults == {NoFaults, ResolverDown}

ClaraBindings == {NULL, "sa", "un"}

InitResolve ==
  \E anna_active \in BOOLEAN, clara_active \in BOOLEAN,
     clara_id \in ClaraBindings, clara_role \in {"employee", "manager"} :
    /\ employees = [InitEmployees EXCEPT ![1].is_active = anna_active,
                                         ![3].is_active = clara_active,
                                         ![3].telegram_user_id = clara_id,
                                         ![3].role = clara_role]
    /\ departments = InitDepartments
    /\ accruals = <<>>
    /\ fsm_state = [u \in Users |-> NULL]
    /\ fsm_data = [u \in Users |-> EmptyData]
    /\ replies = <<>>
    /\ suspended = <<>>

NextResolve ==
  \E u \in ResolveUsers, t \in ResolveTexts, f \in ResolveFaults :
    \/ cmd_start(u, t, f) /\ Capped' /\ UNCHANGED suspended
    \/ back_to_main(u, t, f) /\ Capped' /\ UNCHANGED suspended
    \/ accrual_start(u, t, f) /\ Capped' /\ UNCHANGED suspended
    \/ accrual_choose_employee(u, t, f) /\ Capped' /\ UNCHANGED suspended
    \/ accrual_enter_amount(u, t, f) /\ Capped' /\ UNCHANGED suspended
    \/ show_employee_card(u, t, f) /\ Capped' /\ UNCHANGED suspended

SpecResolve == InitResolve /\ [][NextResolve]_vars

ResolveHandlers ==
  {"cmd_start", "back_to_main", "accrual_start", "accrual_choose_employee",
   "accrual_enter_amount", "show_employee_card"}

ResolveRoutesCovered ==
  \A u \in ResolveUsers, t \in ResolveTexts :
    Route(u, t) \in ResolveHandlers \cup {"unhandled"}

(* the active employee rows bound to an identifier (telegram_user_id is    *)
(* UNIQUE, so at most one)                                                 *)
bound_to(u) ==
  {i \in RowIds(employees) :
     employees[i].telegram_user_id = u /\ employees[i].is_active}

(* C25: the resolver gives SuperAdmin for an identifier of the allow-list  *)
(* whatever the directory holds; otherwise Manager or Employee after the   *)
(* role of the active employee bound to the identifier, and Unknown when   *)
(* no active employee is bound.                                            *)
C25_ResolveRole ==
  \A u \in Users :
    /\ Cardinality(bound_to(u)) <= 1
    /\ u \in superadmins => get_user_role(u, NoFaults) = ROLE_SUPERADMIN
    /\ (u \notin superadmins /\ bound_to(u) = {})
         => get_user_role(u, NoFaults) = ROLE_UNKNOWN
    /\ \A i \in bound_to(u) :
         u \notin superadmins
           => get_user_role(u, NoFaults) =
                (IF employees[i].role = "manager" THEN ROLE_MANAGER
                 ELSE ROLE_EMPLOYEE)

(* the superadmin, bound to active manager Clara, got the superadmin's     *)
(* welcome, and inactive Anna's identifier resolves to nobody                 *)
C25_Witness ==
  /\ employees[3].telegram_user_id = "sa"
  /\ employees[3].is_active
  /\ employees[3].role = "manager"
  /\ ~employees[1].is_active
  /\ get_user_role("mg", NoFaults) = ROLE_UNKNOWN
  /\ replies = <<"welcome", ROLE_SUPERADMIN>>

(* what a user of role Unknown is answered by the handlers of SpecResolve  *)
UnknownReplies ==
  {<<"no access">>, <<>>, <<"welcome", ROLE_UNKNOWN>>,
   <<"main menu", ROLE_UNKNOWN>>}

AskedEmployees == RowIds(employees) \cup {Len(employees) + 1}

(* C27: the balance of an employee with no accrual record is exactly zero, *)
(* also when the query raises.                                             *)
C27_BalanceOfNoRecordsIsZero ==
  \A e \in AskedEmployees, f \in {NoFaults, {"get_employee_balance"}} :
    (\A i \in RowIds(accruals) : accruals[i].employee_id # e)
      => get_employee_balance(accruals, e, f) = 0

(* Boris has records and a balance, Clara has none *)
C27_Witness ==
  /\ balanceOf(2) # 0
  /\ \E i \in RowIds(accruals) : accruals[i].employee_id = 2
  /\ \A i \in RowIds(accruals) : accruals[i].employee_id # 3
  /\ balanceOf(3) = 0

(* --------------- every writer of the ledger (SpecLedger) --------------- *)
(* The superadmin has Boris's card and adds bonuses and deductions and     *)
(* pays the salary out, with amounts 5 and 0; manager Anna records         *)
(* accruals, choosing Boris by his button or typing an id no employee has, *)
(* with amounts 5 and -5.                                                  *)
TXT_PICK_NOBODY == <<"9", ":", " ", "x">>

LedgerUsers == {"sa", "mg"}

LedgerTexts(u) ==
  IF u = "sa"
    THEN {TXT_CARD_BORIS, BTN_GIVE_SALARY, BTN_ADD_BONUS, BTN_ADD_DEDUCTION,
          TXT_FIVE, TXT_ZERO}
    ELSE {BTN_ACCRUAL, TXT_PICK_BORIS, TXT_PICK_NOBODY, TXT_FIVE, TXT_MINUS_FIVE}

InitLedger == InitWith(<<>>)

NextLedger ==
  \E u \in LedgerUsers : \E t \in LedgerTexts(u) :
    \/ accrual_start(u, t, NoFaults) /\ Capped' /\ UNCHANGED suspended
    \/ accrual_choose_employee(u, t, NoFaults) /\ Capped' /\ UNCHANGED suspended
    \/ accrual_enter_amount(u, t, NoFaults) /\ Capped' /\ UNCHANGED suspended
    \/ accrual_finish(u, t, NoFaults) /\ Capped' /\ UNCHANGED suspended
    \/ show_employee_card(u, t, NoFaults) /\ Capped' /\ UNCHANGED suspended
    \/ give_salary(u, t, NoFaults) /\ Capped' /\ UNCHANGED suspended
    \/ add_bonus_start(u, t, NoFaults) /\ Capped' /\ UNCHANGED suspended
    \/ add_bonus_comment(u, t, NoFaults) /\ Capped' /\ UNCHANGED suspended
    \/ add_bonus_finish(u, t, NoFaults) /\ Capped' /\ UNCHANGED suspended
    \/ add_deduction_start(u, t, NoFaults) /\ Capped' /\ UNCHANGED suspended
    \/ add_deduction_comment(u, t, NoFaults) /\ Capped' /\ UNCHANGED suspended
    \/ add_deduction_finish(u, t, NoFaults) /\ Capped' /\ UNCHANGED suspended

SpecLedger == InitLedger /\ [][NextLedger]_vars

LedgerHandlers ==
  {"accrual_start", "accrual_choose_employee", "accrual_enter_amount",
   "accrual_finish", "show_employee_card", "give_salary", "add_bonus_start",
   "add_bonus_comment", "add_bonus_finish", "add_deduction_start",
   "add_deduction_comment", "add_deduction_finish"}

LedgerRoutesCovered ==
  \A u \in LedgerUsers : \A t \in LedgerTexts(u) :
    Route(u, t) \in LedgerHandlers \cup {"unhandled"}

C29_RecordsReferenceEmployees ==
  \A i \in RowIds(accruals) : accruals[i].employee_id \in RowIds(employees)

(* Anna typed an id no employee has and an amount, and is at the comment   *)
(* step; the ledger holds records                                          *)
C29_Witness ==
  /\ fsm_state["mg"] = Accrual_comment
  /\ data_get("mg", "employee_id") \notin RowIds(employees)
  /\ data_get("mg", "amount") > 0
  /\ accruals # <<>>

(* ------------------ reading the history (SpecHistory) ------------------ *)
(* The ledger starts with none, 20 or 21 accruals of Boris for an earlier  *)
(* month; records for Boris and Clara are appended and given the current   *)
(* period, and the history of either is read, with a period or without.    *)
HistorySeeds == {0, HistoryLimit, HistoryLimit + 1}
HistoryEmployees == {2, 3}
HistoryKinds == {"bonus", "advance"}
HistoryPeriods == {NULL, SeedAccrual.period, current_period}

InitHistory == \E n \in HistorySeeds : InitWith([i \in 1..n |-> SeedAccrual])

(* add_accrual followed by the period UPDATE, as the card's handlers do *)
AppendLabelled(e, k) ==
  /\ accruals' = append_with_period(e, 100, k, <<"note">>, "sa", NoFaults).accruals
  /\ UNCHANGED <<departments, employees, context, replies>>

(* get_employee_accruals(e, p): the rows it returns are what is shown *)
ReadHistory(e, p) ==
  /\ replies' = get_employee_accruals(accruals, e, p, NoFaults)
  /\ UNCHANGED <<stores, context>>

NextHistory ==
  \/ \E e \in HistoryEmployees, k \in HistoryKinds :
       AppendLabelled(e, k) /\ Capped' /\ UNCHANGED suspended
  \/ \E e \in HistoryEmployees, p \in HistoryPeriods :
       ReadHistory(e, p) /\ Capped' /\ UNCHANGED suspended

SpecHistory == InitHistory /\ [][NextHistory]_vars

(* the rows of employee e *)
rows_of(e) == {i \in RowIds(accruals) : accruals[i].employee_id = e}

(* C30: the history of an employee holds only that employee's records,     *)
(* newest first; without a period it is the 20 newest (all when there are  *)
(* fewer), with a period it is every record of the employee with exactly   *)
(* that period, however many.                                              *)
C30_RecentHistory ==
  \A e \in HistoryEmployees, p \in HistoryPeriods :
    LET h == get_employee_accruals(accruals, e, p, NoFaults)
        got == {h[n] : n \in 1..Len(h)}
    IN /\ got \subseteq rows_of(e)
       /\ \A m, n \in 1..Len(h) : m < n => created_at(h[m]) > created_at(h[n])
       /\ p = NULL =>
            /\ Len(h) = (IF Cardinality(rows_of(e)) > 20 THEN 20
                         ELSE Cardinality(rows_of(e)))
            /\ \A i \in rows_of(e) \ got, j \in got : created_at(i) < created_at(j)
       /\ p # NULL => got = {i \in rows_of(e) : accruals[i].period = p}

(* Boris has 21 records of the earlier month and one of this month, Clara  *)
(* has one; the last reading gave all 21 of the earlier month              *)
C30_Witness ==
  /\ Len(replies) = HistoryLimit + 1
  /\ Cardinality(rows_of(2)) = HistoryLimit + 2
  /\ rows_of(3) # {}

(* ------------- messages handled concurrently (SpecAsync) --------------- *)
(* dp.start_polling(bot) handles every update in a task of its own, and    *)
(* Dispatcher() is built without event isolation: a message is routed      *)
(* against the state the storage holds at that moment, also while an       *)
(* earlier handler of the same user is suspended in message.answer.        *)
(* add_bonus_finish and add_deduction_finish answer before they change the *)
(* state, so they are two steps here; the other handlers of this           *)
(* specification change nothing after their first answer and stay one      *)
(* step.  The superadmin and manager Anna both open Boris's card.          *)
AsyncUsers == {"sa", "mg"}

AsyncTexts(u) ==
  IF u = "sa" THEN {TXT_CARD_BORIS, BTN_ADD_BONUS, BTN_GIVE_SALARY, TXT_FIVE}
              ELSE {TXT_CARD_BORIS, BTN_ADD_DEDUCTION, TXT_FIVE}

(* a handler waiting in message.answer: its user, what it does to the      *)
(* state afterwards, the employee whose card it then shows                 *)
Suspend(u, then, emp_id) ==
  /\ Len(suspended) < MaxInFlight
  /\ suspended' = Append(suspended, [user |-> u, then |-> then, emp_id |-> emp_id])

(* add_bonus_finish up to its first message.answer *)
add_bonus_finish_until_answer(u, t, f) ==
  /\ Route(u, t) = "add_bonus_finish"
  /\ LET emp_id == data_get(u, "current_employee_id")
         amount == data_get(u, "bonus_amount")
         comment == strip(t)
         r == append_with_period(emp_id, amount, "bonus",
                IF comment = <<>> THEN DEFAULT_BONUS_COMMENT ELSE comment, u, f)
     IN IF emp_id = 0 \/ amount = 0
          THEN /\ replies' = <<"data error">>
               /\ Suspend(u, "clear", 0)
               /\ UNCHANGED <<stores, context>>
        ELSE /\ accruals' = r.accruals
             /\ UNCHANGED <<departments, employees, context>>
             /\ IF r.ok
                  THEN /\ replies' = <<"bonus added">>
                       /\ Suspend(u, "set_state", emp_id)
                  ELSE /\ replies' = <<"error">>
                       /\ Suspend(u, "clear", 0)

(* add_deduction_finish up to its first message.answer *)
add_deduction_finish_until_answer(u, t, f) ==
  /\ Route(u, t) = "add_deduction_finish"
  /\ LET emp_id == data_get(u, "current_employee_id")
         amount == data_get(u, "deduction_amount")
         comment == strip(t)
         r == append_with_period(emp_id, amount, "deduction",
                IF comment = <<>> THEN DEFAULT_DEDUCTION_COMMENT ELSE comment, u, f)
     IN IF emp_id = 0 \/ amount = 0
          THEN /\ replies' = <<"data error">>
               /\ Suspend(u, "clear", 0)
               /\ UNCHANGED <<stores, context>>
        ELSE /\ accruals' = r.accruals
             /\ UNCHANGED <<departments, employees, context>>
             /\ IF r.ok
                  THEN /\ replies' = <<"deduction added">>
                       /\ Suspend(u, "set_state", emp_id)
                  ELSE /\ replies' = <<"error">>
                       /\ Suspend(u, "clear", 0)

(* the rest of a suspended handler: state.set_state(None) and the card,    *)
(* the card alone (give_salary), or state.clear()                          *)
after_answer(i) ==
  LET k == suspended[i]
  IN /\ IF k.then = "clear"
          THEN /\ clear(k.user)
               /\ replies' = <<>>
          ELSE IF k.then = "card"
          THEN /\ replies' = show_updated_card(k.emp_id)
               /\ UNCHANGED context
          ELSE /\ set_state(k.user, NULL)
               /\ replies' = show_updated_card(k.emp_id)
               /\ UNCHANGED fsm_data
     /\ suspended' = SubSeq(suspended, 1, i - 1)
                       \o SubSeq(suspended, i + 1, Len(suspended))
     /\ UNCHANGED stores

InitAsync == InitWith(<<>>)

NextAsync ==
  \/ \E u \in AsyncUsers : \E t \in AsyncTexts(u) :
       \/ show_employee_card(u, t, NoFaults) /\ Capped' /\ UNCHANGED suspended
       \/ give_salary(u, t, NoFaults) /\ Capped' /\ UNCHANGED suspended
       \/ add_bonus_start(u, t, NoFaults) /\ Capped' /\ UNCHANGED suspended
       \/ add_bonus_comment(u, t, NoFaults) /\ Capped' /\ UNCHANGED suspended
       \/ add_bonus_finish_until_answer(u, t, NoFaults) /\ Capped'
       \/ add_deduction_start(u, t, NoFaults) /\ Capped' /\ UNCHANGED suspended
       \/ add_deduction_comment(u, t, NoFaults) /\ Capped' /\ UNCHANGED suspended
       \/ add_deduction_finish_until_answer(u, t, NoFaults) /\ Capped'
  \/ \E i \in 1..Len(suspended) : after_answer(i)

SpecAsync == InitAsync /\ [][NextAsync]_vars

AsyncHandlers ==
  {"show_employee_card", "give_salary", "add_bonus_start", "add_bonus_comment",
   "add_bonus_finish", "add_deduction_start", "add_deduction_comment",
   "add_deduction_finish"}

AsyncRoutesCovered ==
  \A u \in AsyncUsers : \A t \in AsyncTexts(u) :
    Route(u, t) \in AsyncHandlers \cup {"unhandled"}

(* a terminal step of u has committed and not yet changed u's state *)
commit_in_flight(u) ==
  \E i \in 1..Len(suspended) :
    suspended[i].user = u /\ suspended[i].then = "set_state"

(* C22: the messages of one conversation are handled one after another:    *)
(* while a terminal step of AddBonus or AddDeduction has committed and not *)
(* yet made its state transition, no further message of that user is       *)
(* matched against the state and committed by the terminal step, so one    *)
(* pass commits once.                                                      *)
C22_OnePassOneCommit ==
  [][\A u \in AsyncUsers : \A t \in AsyncTexts(u) :
       commit_in_flight(u)
         => ~(\/ add_bonus_finish_until_answer(u, t, NoFaults)
              \/ add_deduction_finish_until_answer(u, t, NoFaults))]_vars

(* C23: however the handlers of different users interleave, a step that    *)
(* appends a record appends one, labels that record with the current       *)
(* period and leaves every other record as it was; so no record made by a  *)
(* handler is without a period.                                            *)
C23_PeriodLabelsOwnRecord ==
  /\ [][accruals' # accruals
          => /\ AppendedOne(accruals, accruals')
             /\ accruals'[Len(accruals')].period = current_period]_vars
  /\ [](\A i \in RowIds(accruals) :
          accruals[i].created_by # NULL => accruals[i].period # NULL)

(* a bonus of the superadmin and a deduction of Anna, both for Boris, were *)
(* committed back to back and both handlers are still suspended            *)
C23_Witness ==
  /\ Len(suspended) = 2
  /\ {suspended[1].user, suspended[2].user} = {"sa", "mg"}
  /\ Len(accruals) = 2
  /\ {accruals[1].created_by, accruals[2].created_by} = {"sa", "mg"}
  /\ accruals[1].employee_id = 2 /\ accruals[2].employee_id = 2
  /\ accruals[1].period = current_period /\ accruals[2].period = current_period

(* ------------------- C31: SetSalary's frame ---------------------------- *)
(* C31: the commit of SetSalary changes nothing but the salary column of   *)
(* the pinned employee: the ledger keeps its length and every record, the  *)
(* departments and every other column and row of the directory stay, and   *)
(* every employee's balance is what it was.                                *)
C31_SetSalaryOnlyOverwritesSalary ==
  [][\A u \in SalaryUsers, t \in SalaryTexts :
       (/\ Route(u, t) = "change_salary_finish"
        /\ Handle(u, t))
       => (/\ accruals' = accruals
           /\ departments' = departments
           /\ Len(employees') = Len(employees)
           /\ \A i \in RowIds(employees) :
                /\ [employees'[i] EXCEPT !.salary = 0]
                     = [employees[i] EXCEPT !.salary = 0]
                /\ i # Pinned(u) => employees'[i] = employees[i]
                /\ get_employee_balance(accruals', i, NoFaults)
                     = get_employee_balance(accruals, i, NoFaults))]_vars

(* the salary of Boris was just overwritten while the ledger holds a       *)
(* record of his and his balance is not zero                               *)
C31_Witness ==
  /\ replies = <<"salary changed", "card">>
  /\ employees[2].salary # 0
  /\ accruals # <<>>
  /\ balanceOf(2) # 0

(* ------------------- C32: /start and the active step ------------------- *)
(* C32: after /start is handled, in whatever step the sender was, the      *)
(* sender has no active step, so the next text goes to a menu handler.     *)
C32_StartLeavesNoActiveStep ==
  [][\A u \in ResolveUsers :
       (/\ Route(u, CMD_START) = "cmd_start"
        /\ Handle(u, CMD_START))
       => fsm_state'[u] = NULL]_vars

(* ------------- the comment steps (SpecComment) ------------------------- *)
(* The superadmin has Boris's card and adds bonuses and deductions, the    *)
(* manager records accruals for Boris; both answer the comment step with   *)
(* a blank or with a text.                                                 *)
CommentUsers == {"sa", "mg"}

CommentTexts(u) ==
  IF u = "sa"
    THEN {TXT_CARD_BORIS, BTN_ADD_BONUS, BTN_ADD_DEDUCTION, TXT_FIVE, TXT_BLANK}
    ELSE {BTN_ACCRUAL, TXT_PICK_BORIS, TXT_FIVE, TXT_BLANK}

InitComment == InitWith(<<>>)

NextComment ==
  \E u \in CommentUsers : \E t \in CommentTexts(u) :
    \/ accrual_start(u, t, NoFaults) /\ Capped' /\ UNCHANGED suspended
    \/ accrual_choose_employee(u, t, NoFaults) /\ Capped' /\ UNCHANGED suspended
    \/ accrual_enter_amount(u, t, NoFaults) /\ Capped' /\ UNCHANGED suspended
    \/ accrual_finish(u, t, NoFaults) /\ Capped' /\ UNCHANGED suspended
    \/ show_employee_card(u, t, NoFaults) /\ Capped' /\ UNCHANGED suspended
    \/ add_bonus_start(u, t, NoFaults) /\ Capped' /\ UNCHANGED suspended
    \/ add_bonus_comment(u, t, NoFaults) /\ Capped' /\ UNCHANGED suspended
    \/ add_bonus_finish(u, t, NoFaults) /\ Capped' /\ UNCHANGED suspended
    \/ add_deduction_start(u, t, NoFaults) /\ Capped' /\ UNCHANGED suspended
    \/ add_deduction_comment(u, t, NoFaults) /\ Capped' /\ UNCHANGED suspended
    \/ add_deduction_finish(u, t, NoFaults) /\ Capped' /\ UNCHANGED suspended

SpecComment == InitComment /\ [][NextComment]_vars

CommentHandlers ==
  {"accrual_start", "accrual_choose_employee", "accrual_enter_amount",
   "accrual_finish", "show_employee_card", "add_bonus_start",
   "add_bonus_comment", "add_bonus_finish", "add_deduction_start",
   "add_deduction_comment", "add_deduction_finish"}

CommentRoutesCovered ==
  \A u \in CommentUsers : \A t \in CommentTexts(u) :
    Route(u, t) \in CommentHandlers \cup {"unhandled"}

(* the label a comment step stores in place of an empty comment *)
DefaultComment(handler) ==
  CASE handler = "accrual_finish" -> DEFAULT_ACCRUAL_COMMENT
    [] handler = "add_bonus_finish" -> DEFAULT_BONUS_COMMENT
    [] handler = "add_deduction_finish" -> DEFAULT_DEDUCTION_COMMENT

(* a blank answer to the comment step of one of the handlers, the flow's   *)
(* employee being chosen, appends one record whose comment is the          *)
(* handler's default label                                                 *)
BlankCommentCommitsDefault(handlers) ==
  \A u \in CommentUsers :
    (/\ Route(u, TXT_BLANK) \in handlers
     /\ Route(u, TXT_BLANK) = "accrual_finish"
          => data_get(u, "employee_id") \in RowIds(employees)
     /\ Route(u, TXT_BLANK) # "accrual_finish" => Pinned(u) \in RowIds(employees)
     /\ Handle(u, TXT_BLANK))
    => (/\ AppendedOne(accruals, accruals')
        /\ accruals'[Len(accruals')].comment = DefaultComment(Route(u, TXT_BLANK)))

(* C33: in the comment step of RecordAccrual, AddBonus and AddDeduction a  *)
(* whitespace-only comment is not rejected: the flow appends its record    *)
(* and the record's comment is the default label of the kind.              *)
C33_BlankCommentCommitsDefault ==
  [][BlankCommentCommitsDefault({"accrual_finish", "add_bonus_finish",
                                 "add_deduction_finish"})]_vars

(* the same for the two comment steps of the card, where it holds *)
BonusDeductionBlankComment ==
  [][BlankCommentCommitsDefault({"add_bonus_finish",
                                 "add_deduction_finish"})]_vars

(* ------------- the pinned employee (SpecPin) --------------------------- *)
(* The superadmin opens the cards of Boris (Sales) and Clara (Depot) from  *)
(* the list of all employees or after opening the list of Depot, where     *)
(* Boris is not found, goes back to the main menu, and changes the salary, *)
(* adds bonuses and deductions and pays the salary out.  The ledger is     *)
(* kept one record shorter than in the other dialogues.                    *)
PinUsers == {"sa"}

PinTexts ==
  {TXT_DEPT_DEPOT, TXT_CARD_BORIS, TXT_CARD_CLARA, BTN_BACK_MAIN,
   BTN_GIVE_SALARY, BTN_CHANGE_SALARY, BTN_ADD_BONUS,
   BTN_ADD_DEDUCTION, TXT_FIVE}

InitPin == InitWith(<<>>)

(* the bounds of the model, with the ledger one record shorter *)
PinCapped == Capped /\ Len(accruals) < MaxAccruals

NextPin ==
  \E u \in PinUsers, t \in PinTexts :
    \/ superadmin_view_department(u, t, NoFaults) /\ PinCapped' /\ UNCHANGED suspended
    \/ back_to_main(u, t, NoFaults) /\ PinCapped' /\ UNCHANGED suspended
    \/ show_employee_card(u, t, NoFaults) /\ PinCapped' /\ UNCHANGED suspended
    \/ give_salary(u, t, NoFaults) /\ PinCapped' /\ UNCHANGED suspended
    \/ change_salary_start(u, t, NoFaults) /\ PinCapped' /\ UNCHANGED suspended
    \/ change_salary_finish(u, t, NoFaults) /\ PinCapped' /\ UNCHANGED suspended
    \/ add_bonus_start(u, t, NoFaults) /\ PinCapped' /\ UNCHANGED suspended
    \/ add_bonus_comment(u, t, NoFaults) /\ PinCapped' /\ UNCHANGED suspended
    \/ add_bonus_finish(u, t, NoFaults) /\ PinCapped' /\ UNCHANGED suspended
    \/ add_deduction_start(u, t, NoFaults) /\ PinCapped' /\ UNCHANGED suspended
    \/ add_deduction_comment(u, t, NoFaults) /\ PinCapped' /\ UNCHANGED suspended
    \/ add_deduction_finish(u, t, NoFaults) /\ PinCapped' /\ UNCHANGED suspended

SpecPin == InitPin /\ [][NextPin]_vars

PinHandlers ==
  {"superadmin_view_department", "back_to_main", "show_employee_card",
   "give_salary", "change_salary_start", "change_salary_finish",
   "add_bonus_start", "add_bonus_comment", "add_bonus_finish",
   "add_deduction_start", "add_deduction_comment", "add_deduction_finish"}

PinRoutesCovered ==
  \A u \in PinUsers, t \in PinTexts :
    Route(u, t) \in PinHandlers \cup {"unhandled"}

(* the employee whose card the text t opens for u, 0 when the lookup fails *)
card_of(u, t) ==
  get_employee_by_name(t, data_get(u, "current_department_id"), NoFaults)

(* the handling of t from u changed the ledger or the directory for        *)
(* employee e only: one record of e appended, or the salary of e set       *)
CommitsFor(e) ==
  /\ accruals' # accruals
       => /\ AppendedOne(accruals, accruals')
          /\ accruals'[Len(accruals')].employee_id = e
  /\ employees' # employees
       => /\ e \in RowIds(employees)
          /\ employees' = [employees EXCEPT ![e] = employees'[e]]

C35_IdentityIsStable ==
  /\ [][\A i \in RowIds(employees) :
          /\ i \in RowIds(employees')
          /\ employees'[i].telegram_user_id = employees[i].telegram_user_id
          /\ employees'[i].role = employees[i].role
          /\ employees'[i].is_active = employees[i].is_active]_vars
  /\ [](\A i \in RowIds(employees) :
          i > Len(InitEmployees)
            => /\ employees[i].role = "employee"
               /\ employees[i].is_active
               /\ employees[i].telegram_user_id = NULL)
  /\ [][\A u \in Users :
          get_user_role(u, NoFaults)' = get_user_role(u, NoFaults)]_vars

(* the superadmin has added an employee to Depot *)
C35_Witness ==
  /\ Len(employees) > Len(InitEmployees)
  /\ employees[Len(employees)].department_id = 2
  /\ fsm_state["sa"] = NULL

(* ------------- two superadmins pay out (SpecAdmins) -------------------- *)
(* Two superadmins open Boris's card and press the payout button; the      *)
(* first also adds bonuses.  Boris starts with one salary accrual.  A      *)
(* handler is suspended where it awaits message.answer, and any other      *)
(* message is handled meanwhile.                                           *)
AdminsUsers == superadmins

AdminsTexts(u) ==
  IF u = "sa" THEN {TXT_CARD_BORIS, BTN_GIVE_SALARY, BTN_ADD_BONUS, TXT_FIVE}
              ELSE {TXT_CARD_BORIS, BTN_GIVE_SALARY}

(* the stale read: the balance as it was before the newest record of the   *)
(* ledger was appended                                                     *)
give_salary_until_answer_stale_read(u, t, f) ==
  /\ Route(u, t) = "give_salary"
  /\ IF ~require_role("give_salary", u, f)
       THEN deny(u) /\ UNCHANGED suspended
     ELSE LET emp_id == data_get(u, "current_employee_id")
              balance == get_employee_balance(
                           SubSeq(accruals, 1, Len(accruals) - 1), emp_id, f)
              r == append_with_period(emp_id, balance, "payout",
                                      PAYOUT_COMMENT, u, f)
          IN IF emp_id = 0
               THEN /\ replies' = <<"employee not selected">>
                    /\ UNCHANGED <<stores, context, suspended>>
             ELSE IF balance <= 0
               THEN /\ replies' = <<"nothing to pay">>
                    /\ UNCHANGED <<stores, context, suspended>>
             ELSE /\ accruals' = r.accruals
                  /\ UNCHANGED <<departments, employees, context>>
                  /\ IF r.ok
                       THEN /\ replies' = <<"salary paid">>
                            /\ Suspend(u, "card", emp_id)
                       ELSE /\ replies' = <<"error paying salary">>
                            /\ UNCHANGED suspended

(* give_salary up to its message.answer: the balance read, the INSERT and  *)
(* the period UPDATE are synchronous calls with no await between them      *)
give_salary_until_answer(u, t, f) ==
  /\ Route(u, t) = "give_salary"
  /\ IF ~require_role("give_salary", u, f)
       THEN deny(u) /\ UNCHANGED suspended
     ELSE LET emp_id == data_get(u, "current_employee_id")
              balance == get_employee_balance(accruals, emp_id, f)
              r == append_with_period(emp_id, balance, "payout",
                                      PAYOUT_COMMENT, u, f)
          IN IF emp_id = 0
               THEN /\ replies' = <<"employee not selected">>
                    /\ UNCHANGED <<stores, context, suspended>>
             ELSE IF balance <= 0
               THEN /\ replies' = <<"nothing to pay">>
                    /\ UNCHANGED <<stores, context, suspended>>
             ELSE /\ accruals' = r.accruals
                  /\ UNCHANGED <<departments, employees, context>>
                  /\ IF r.ok
                       THEN /\ replies' = <<"salary paid">>
                            /\ Suspend(u, "card", emp_id)
                       ELSE /\ replies' = <<"error paying salary">>
                            /\ UNCHANGED suspended

InitAdmins == InitWith(<<SeedAccrual>>)

NextAdmins ==
  \/ \E u \in AdminsUsers : \E t \in AdminsTexts(u) :
       \/ show_employee_card(u, t, NoFaults) /\ Capped' /\ UNCHANGED suspended
       \/ give_salary_until_answer(u, t, NoFaults) /\ Capped'
       \/ add_bonus_start(u, t, NoFaults) /\ Capped' /\ UNCHANGED suspended
       \/ add_bonus_comment(u, t, NoFaults) /\ Capped' /\ UNCHANGED suspended
       \/ add_bonus_finish(u, t, NoFaults) /\ Capped' /\ UNCHANGED suspended
  \/ \E i \in 1..Len(suspended) : after_answer(i)

SpecAdmins == InitAdmins /\ [][NextAdmins]_vars

AdminsHandlers ==
  {"show_employee_card", "give_salary", "add_bonus_start", "add_bonus_comment",
   "add_bonus_finish"}

AdminsRoutesCovered ==
  \A u \in AdminsUsers : \A t \in AdminsTexts(u) :
    Route(u, t) \in AdminsHandlers \cup {"unhandled"}

(* the payouts of employee e in the ledger, and their sum *)
payouts_of(e) ==
  {i \in RowIds(accruals) : accruals[i].employee_id = e /\ accruals[i].kind = "payout"}

(* a payout request of a superadmin is still suspended at its answer *)
payout_in_flight(u) ==
  \E i \in 1..Len(suspended) : suspended[i].user = u /\ suspended[i].then = "card"

BalanceFaultUsers == {"sa"}

BalanceFaultTexts ==
  {TXT_CARD_BORIS, TXT_CARD_CLARA, BTN_GIVE_SALARY, BTN_ADD_BONUS, TXT_FIVE}

(* the balance query raises *)
BalanceDown == {"get_employee_balance"}

BalanceFaults == {NoFaults, BalanceDown}

InitBalanceFault == \E n \in {0, 1} : InitWith([i \in 1..n |-> SeedAccrual])

NextBalanceFault ==
  \E u \in BalanceFaultUsers, t \in BalanceFaultTexts, f \in BalanceFaults :
    \/ show_employee_card(u, t, f) /\ Capped' /\ UNCHANGED suspended
    \/ give_salary(u, t, f) /\ Capped' /\ UNCHANGED suspended
    \/ add_bonus_start(u, t, f) /\ Capped' /\ UNCHANGED suspended
    \/ add_bonus_comment(u, t, f) /\ Capped' /\ UNCHANGED suspended
    \/ add_bonus_finish(u, t, f) /\ Capped' /\ UNCHANGED suspended

SpecBalanceFault == InitBalanceFault /\ [][NextBalanceFault]_vars

BalanceFaultHandlers ==
  {"show_employee_card", "give_salary", "add_bonus_start", "add_bonus_comment",
   "add_bonus_finish"}

BalanceFaultRoutesCovered ==
  \A u \in BalanceFaultUsers, t \in BalanceFaultTexts :
    Route(u, t) \in BalanceFaultHandlers \cup {"unhandled"}

(* C37: when the balance query raises, get_employee_balance returns 0      *)
(* whatever the ledger holds, and a payout request for a pinned employee   *)
(* in which it raises answers that there is nothing to pay and changes no  *)
(* store and no context.                                                   *)
C37_FailedBalanceQueryPaysNothing ==
  /\ [](\A e \in RowIds(employees) :
          get_employee_balance(accruals, e, BalanceDown) = 0)
  /\ [][\A u \in BalanceFaultUsers :
          (Pinned(u) # 0 /\ give_salary(u, BTN_GIVE_SALARY, BalanceDown))
            => (/\ replies' = <<"nothing to pay">>
                /\ UNCHANGED <<stores, context>>)]_vars

(* Boris is owed money and the payout request was answered with 'nothing   *)
(* to pay'                                                                 *)
C37_Witness ==
  /\ Pinned("sa") = 2
  /\ balanceOf(2) > 0
  /\ replies = <<"nothing to pay">>

(* ------------- the terminal steps with failing commits (SpecTerminal) -- *)
(* The superadmin runs AddDepartment and AddEmployee and, on Boris's card, *)
(* SetSalary, AddBonus and AddDeduction; the manager runs RecordAccrual    *)
(* and AddEmployee.  Out of a flow a user presses a button, in a flow the  *)
(* user answers the step: with Depot's button at the department step, with *)
(* Boris's button at the employee step, with "5" elsewhere; one user is in *)
(* a dialogue at a time.  In every handling the writes of the commit       *)
(* succeed, or the period UPDATE raises, or every write raises.            *)
TerminalUsers == {"sa", "mg"}

TerminalButtons(u) ==
  IF u = "sa"
    THEN {BTN_ADD_DEPARTMENT, BTN_ADD_EMPLOYEE, TXT_CARD_BORIS, BTN_CHANGE_SALARY,
          BTN_ADD_BONUS, BTN_ADD_DEDUCTION}
    ELSE {BTN_ACCRUAL, BTN_ADD_EMPLOYEE}

TerminalTexts(u) ==
  CASE fsm_state[u] = NULL -> TerminalButtons(u)
    [] fsm_state[u] = AddEmployee_department -> {TXT_DEPT_DEPOT}
    [] fsm_state[u] = Accrual_employee -> {TXT_PICK_BORIS}
    [] OTHER -> {TXT_FIVE}

AllTerminalTexts ==
  UNION {TerminalButtons(u) : u \in TerminalUsers}
    \cup {TXT_DEPT_DEPOT, TXT_PICK_BORIS, TXT_FIVE}

(* user u sends text t: a button out of a flow, the step's answer in one; *)
(* one user is in a dialogue at a time                                    *)
Sends(u, t) ==
  /\ t \in TerminalTexts(u)
  /\ \A v \in TerminalUsers \ {u} : fsm_state[v] = NULL /\ fsm_data[v] = EmptyData

(* the writes of the commits *)
CommitCalls ==
  {"add_department", "add_employee", "add_accrual", "assign_period",
   "set_employee_salary"}

TerminalFaults == {NoFaults, {"assign_period"}, CommitCalls}

InitTerminal == InitWith(<<>>)

(* the bounds of the model, with the ledger one record shorter *)
TerminalCapped == Capped /\ Len(accruals) < MaxAccruals

NextTerminal ==
  \E u \in TerminalUsers, t \in AllTerminalTexts, f \in TerminalFaults :
    \/ Sends(u, t)
       /\ superadmin_add_department_start(u, t, f)
       /\ TerminalCapped' /\ UNCHANGED suspended
    \/ Sends(u, t)
       /\ superadmin_add_department_finish(u, t, f)
       /\ TerminalCapped' /\ UNCHANGED suspended
    \/ Sends(u, t)
       /\ add_employee_start(u, t, f)
       /\ TerminalCapped' /\ UNCHANGED suspended
    \/ Sends(u, t)
       /\ add_employee_enter_position(u, t, f)
       /\ TerminalCapped' /\ UNCHANGED suspended
    \/ Sends(u, t)
       /\ add_employee_choose_department(u, t, f)
       /\ TerminalCapped' /\ UNCHANGED suspended
    \/ Sends(u, t)
       /\ add_employee_finish_superadmin(u, t, f)
       /\ TerminalCapped' /\ UNCHANGED suspended
    \/ Sends(u, t)
       /\ accrual_start(u, t, f)
       /\ TerminalCapped' /\ UNCHANGED suspended
    \/ Sends(u, t)
       /\ accrual_choose_employee(u, t, f)
       /\ TerminalCapped' /\ UNCHANGED suspended
    \/ Sends(u, t)
       /\ accrual_enter_amount(u, t, f)
       /\ TerminalCapped' /\ UNCHANGED suspended
    \/ Sends(u, t)
       /\ accrual_finish(u, t, f)
       /\ TerminalCapped' /\ UNCHANGED suspended
    \/ Sends(u, t)
       /\ show_employee_card(u, t, f)
       /\ TerminalCapped' /\ UNCHANGED suspended
    \/ Sends(u, t)
       /\ change_salary_start(u, t, f)
       /\ TerminalCapped' /\ UNCHANGED suspended
    \/ Sends(u, t)
       /\ change_salary_finish(u, t, f)
       /\ TerminalCapped' /\ UNCHANGED suspended
    \/ Sends(u, t)
       /\ add_bonus_start(u, t, f)
       /\ TerminalCapped' /\ UNCHANGED suspended
    \/ Sends(u, t)
       /\ add_bonus_comment(u, t, f)
       /\ TerminalCapped' /\ UNCHANGED suspended
    \/ Sends(u, t)
       /\ add_bonus_finish(u, t, f)
       /\ TerminalCapped' /\ UNCHANGED suspended
    \/ Sends(u, t)
       /\ add_deduction_start(u, t, f)
       /\ TerminalCapped' /\ UNCHANGED suspended
    \/ Sends(u, t)
       /\ add_deduction_comment(u, t, f)
       /\ TerminalCapped' /\ UNCHANGED suspended
    \/ Sends(u, t)
       /\ add_deduction_finish(u, t, f)
       /\ TerminalCapped' /\ UNCHANGED suspended

SpecTerminal == InitTerminal /\ [][NextTerminal]_vars

TerminalSpecHandlers ==
  {"superadmin_add_department_start", "superadmin_add_department_finish",
   "add_employee_start", "add_employee_enter_position",
   "add_employee_choose_department", "add_employee_finish_superadmin",
   "accrual_start", "accrual_choose_employee", "accrual_enter_amount",
   "accrual_finish", "show_employee_card",
   "change_salary_start", "change_salary_finish", "add_bonus_start",
   "add_bonus_comment", "add_bonus_finish", "add_deduction_start",
   "add_deduction_comment", "add_deduction_finish"}

TerminalRoutesCovered ==
  \A u \in TerminalUsers : \A t \in TerminalTexts(u) :
    Route(u, t) \in TerminalSpecHandlers

(* text t of user u goes to the terminal step of a flow and passes the     *)
(* step's validation: a non-empty name or position, the name of a          *)
(* department, an amount; the comment steps take every text.  The position *)
(* step ends the flow for a manager only.                                  *)
AtTerminalStep(u, t) ==
  LET h == Route(u, t)
  IN /\ h \in TerminalHandlers
     /\ ~FailsValidation(h, t)
     /\ h = "add_employee_choose_department"
          => get_user_role(u, NoFaults) = ROLE_MANAGER
     /\ h = "add_employee_finish_superadmin" => named_department(t) # 0
     /\ ~Denied(u, t)

(* C38: when the terminal step of a flow handles a text that passes its    *)
(* validation, the sender has no active step afterwards, whether the       *)
(* writes of the commit succeed or raise.                                  *)
C38_TerminalStepEndsFlow ==
  [][\A u \in TerminalUsers :
       fsm_state'[u] # NULL
         => \A t \in AllTerminalTexts :
              AtTerminalStep(u, t)
                => \A f \in TerminalFaults : ~HandleWith(u, t, f)]_vars

(* a department was added, and later a commit on Boris's card raised: the *)
(* superadmin was answered with the error and has no step and no data     *)
C38_Witness ==
  /\ replies = <<"error">>
  /\ fsm_state["sa"] = NULL
  /\ fsm_data["sa"] = EmptyData
  /\ Len(departments) > Len(InitDepartments)

(* ------------- the figures of a card (SpecCard) ------------------------ *)
(* The ledger starts empty or with 20 records of Boris of an earlier       *)
(* month, a bonus followed by 19 salary accruals; bonuses, deductions,     *)
(* advances and payouts of Boris and Clara are appended, and the card of   *)
(* either is shown.                                                        *)
CardEmployees == {2, 3}
CardKinds == {"bonus", "deduction", "advance", "payout"}

SeedBonus == [SeedAccrual EXCEPT !.kind = "bonus", !.amount = 700]

InitCard ==
  \E n \in {0, HistoryLimit} :
    InitWith([i \in 1..n |-> IF i = 1 THEN SeedBonus ELSE SeedAccrual])

(* sum(a['amount'] for a in accruals if a['kind'] == kind) over the rows   *)
(* h that get_employee_accruals returned                                   *)
RECURSIVE sum_of_kind(_, _)
sum_of_kind(h, kind) ==
  IF h = <<>> THEN 0
  ELSE (IF accruals[Head(h)].kind = kind THEN accruals[Head(h)].amount ELSE 0)
       + sum_of_kind(Tail(h), kind)

(* the figures show_employee_card and show_updated_card put on the card of *)
(* employee e: bonuses, deductions, advances, payouts, and the balance     *)
card_figures(e) ==
  LET h == get_employee_accruals(accruals, e, NULL, NoFaults)
  IN [bonuses |-> sum_of_kind(h, "bonus"),
      deductions |-> sum_of_kind(h, "deduction"),
      advances |-> sum_of_kind(h, "advance"),
      payouts |-> sum_of_kind(h, "payout"),
      balance |-> get_employee_balance(accruals, e, NoFaults)]

(* the card of employee e is built and sent *)
ShowCard(e) ==
  /\ replies' = <<card_figures(e)>>
  /\ UNCHANGED <<stores, context>>

NextCard ==
  \/ \E e \in CardEmployees, k \in CardKinds :
       AppendLabelled(e, k) /\ Capped' /\ UNCHANGED suspended
  \/ \E e \in CardEmployees :
       ShowCard(e) /\ Capped' /\ UNCHANGED suspended

SpecCard == InitCard /\ [][NextCard]_vars

(* the 20 newest records of employee e, all of them when there are fewer *)
recent_of(e) ==
  {i \in rows_of(e) :
     Cardinality({j \in rows_of(e) : created_at(j) > created_at(i)}) < 20}

(* the sum of the amounts of the records ids that have the kind *)
total_of(ids, kind) ==
  SumRows(accruals, {i \in ids : accruals[i].kind = kind})

(* C39: the bonuses, deductions, advances and payouts of a card are the    *)
(* sums over the 20 newest records of the employee, its balance is the     *)
(* signed sum over all the records; for an employee with at most 20        *)
(* records bonuses - deductions - advances - payouts + the sum of the      *)
(* salary records is the balance.                                          *)
C39_CardFigures ==
  \A e \in CardEmployees :
    LET c == card_figures(e)
    IN /\ c.bonuses = total_of(recent_of(e), "bonus")
       /\ c.deductions = total_of(recent_of(e), "deduction")
       /\ c.advances = total_of(recent_of(e), "advance")
       /\ c.payouts = total_of(recent_of(e), "payout")
       /\ c.balance = SignedFold(accruals, e)
       /\ Cardinality(rows_of(e)) <= 20
            => c.bonuses - c.deductions - c.advances - c.payouts
                 + total_of(rows_of(e), "salary") = c.balance

(* Boris's card is shown when he has more than 20 records: the old bonus   *)
(* counts in the balance and not in the card's bonuses                     *)
C39_Witness ==
  /\ Cardinality(rows_of(2)) > 20
  /\ replies = <<card_figures(2)>>
  /\ replies[1].bonuses < total_of(rows_of(2), "bonus")
  /\ replies[1].deductions > 0

====
